---- MODULE Spec2Model ----
(***************************************************************************)
(* A model of the node handlers of the observability pipeline              *)
(* (kiraboshi/reflex, apps/pipeline): the Reaction Executor, the           *)
(* Enrich/Diff node, the Interest Filter and the Process node, each run    *)
(* by the event bus's delivery loops.                                      *)
(*                                                                         *)
(* Two stores are involved.  The handler's context `client` is the event   *)
(* bus's transaction: what emitFromTransaction writes through it becomes   *)
(* visible only when the delivery commits.  `pipelineDb.query` runs on the *)
(* pipeline database's own pool (database.ts:40-45): every statement       *)
(* through it is committed on its own, whatever happens to the delivery.   *)
(*                                                                         *)
(* Each node has its own specification (SpecReaction, SpecEnrich, ...);    *)
(* the variables of the other nodes stay as they are.                      *)
(***************************************************************************)
EXTENDS Naturals, Integers, Sequences, FiniteSets, TLC

\* ------------------------------------------------------------------ bounds
\* Deliveries of one message by the event bus (the first and its redeliveries).
MaxDeliveries == 3
\* Infrastructure failures (a query that throws, a delivery that is cut off).
MaxFaults == 1
\* Signals of one source.
MaxSignals == 4
\* Envelopes one handler invocation emits.
MaxEnvelopes == 2
\* Nodes of a pipeline configuration.
MaxNodes == 2
\* Words of an event type string.
MaxWords == 6
\* Heartbeat signals the periodic connectors emit.
MaxEmitted == 4
\* Characters of a rule id or event type given to generateDedupeKey.
MaxChars == 3
\* Heartbeat signals on the queue, and the skips counted for one of them.
MaxHeartbeats == 2
MaxSkips == 2

\* The concurrent delivery loops of one node.
Handlers == {"h1", "h2"}

NoValue == "none"

\* ------------------------------------------------------------- variables
VARIABLES
    rxTrigger,      \* Reaction: the triggering event: [kind, ruleId, actions]
    rxRows,         \* Reaction: core.reaction_executions, a set of rows
    rxH,            \* Reaction: each delivery loop's handler invocation
    rxLog,          \* Reaction: the committed reaction.executed events, in order
    rxDeliveries,   \* Reaction: deliveries of the triggering event so far
    rxAcked,        \* Reaction: the triggering event was acknowledged
    rxFaults,       \* Reaction: failures injected so far
    rxExecuted,     \* Reaction: per action index, how often its adapter ran
    rxRolledBack,   \* Reaction: a delivery was rolled back after writing a row
    enSignals,      \* Enrich: the bodies of the signal.web.snapshot messages
    enSnapshot,     \* Enrich: core.entity_state's hash for (namespace, 'url', source)
    enH,            \* Enrich: each delivery loop's handler invocation
    enLog,          \* Enrich: the committed enriched.web.content_delta events
    enDeliveries,   \* Enrich: per message, its deliveries so far
    enAcked,        \* Enrich: per message, whether it was acknowledged
    enFaults,       \* Enrich: failures injected so far
    enLost,         \* Enrich: a delivery was rolled back after its upsert
    inEvent,        \* Interest: the envelope the bus delivers to the Interest Filter
    inRules,        \* Interest: core.interest_rules, in the order a scan returns it
    inH,            \* Interest: the handler invocation of the delivery loop
    inLog,          \* Interest: the committed interest.match events
    inDeliveries,   \* Interest: deliveries of the enriched event so far
    inAcked,        \* Interest: the enriched event was acknowledged
    inFaults,       \* Interest: failures injected so far
    prEvents,       \* Process: the events delivered to the Process node
    prInstances,    \* Process: core.process_instances, in creation order
    prH,            \* Process: each delivery loop's handler invocation
    prLog,          \* Process: the committed process.* / incident.* events
    prDeliveries,   \* Process: per event, its deliveries so far
    prAcked,        \* Process: per event, whether it was acknowledged
    prFaults,       \* Process: failures injected so far
    prOverlapped,   \* Process: two deliveries were handled at the same time
    tgSignals,      \* Pipeline: the bodies one source shows, one signal each
    tgSnapshot,     \* Pipeline: core.entity_state's hash for the source
    tgEnriched,     \* Pipeline: the enriched events emitted, in order
    tgMatches,      \* Pipeline: the interest.match events emitted, in order
    tgRows,         \* Pipeline: core.reaction_executions, a set of rows
    tgRan,          \* Pipeline: per interest.match event, how often the adapter ran
    tgPos,          \* Pipeline: how many signals / enriched / matches were handled
    hbPayload,      \* Heartbeat: the signal.periodic.heartbeat payload [value, count]
    hbH,            \* Heartbeat: each delivery loop's handler invocation
    hbLog,          \* Heartbeat: the committed enriched.periodic.heartbeat events
    hbDeliveries,   \* Heartbeat: deliveries of the signal so far
    hbAcked,        \* Heartbeat: the signal was acknowledged
    hbFaults,       \* Heartbeat: failures injected so far
    emPlan,         \* Emission: what the handler does: [envelopes, throwsAfter]
    emH,            \* Emission: each delivery loop's handler invocation
    emQueue,        \* Emission: the committed queue messages
    emLog,          \* Emission: the committed event-log entries
    emDeliveries,   \* Emission: deliveries of the handled event so far
    emAcked,        \* Emission: the handled event was acknowledged
    emFaults,       \* Emission: failures injected so far
    emRolledBack,   \* Emission: the deliveries that were rolled back
    stConfig,       \* Startup: the parsed configuration file
    stPc,           \* Startup: where main is
    stIdx,          \* Startup: the node the executor's current loop is at
    stError,        \* Startup: the error main ended with
    stRegistered,   \* Startup: the node ids registered with the system, in order
    stHandlers,     \* Startup: the node ids whose instance attached its handlers
    stConsuming,    \* Startup: the node ids consuming from the queue
    owRunning,      \* Ownership: the handler that is running
    owPos,          \* Ownership: the statement the running handler is at
    owRead,         \* Ownership: per table, the node types that read it
    owWrote,        \* Ownership: per table, the node types that wrote it
    clEventType,    \* Classification: the event type string, as its words
    clResults,      \* Classification: what the calls made so far returned
    exConfig,       \* Executor: config.nodes, the node definitions
    exPc,           \* Executor: where start() / stop() stands
    exIdx,          \* Executor: the node the running loop is at
    exError,        \* Executor: the error start() rejected with
    exNodes,        \* Executor: this.nodes, the registered CoreNodes
    exInstances,    \* Executor: this.nodeInstances
    exConnectors,   \* Executor: this.connectors
    exHandlers,     \* Executor: per node, the event types it has a handler for
    exConsuming,    \* Executor: the nodes consuming from the queue
    exIntervalId,   \* Executor: per periodic connector, its intervalId (0: null)
    exTimers,       \* Executor: per periodic connector, its active interval timers
    exEmitted,      \* Executor: signal.periodic.heartbeat signals emitted so far
    dkCalls,        \* Dedupe key: the arguments of the calls of generateDedupeKey so far
    dkKeys,         \* Dedupe key: per call, the joined key string and the key returned
    dfSignals,      \* Deferral: the payloads of the signal.periodic.heartbeat messages
    dfStatus,       \* Deferral: per message, visible, taken by a node, or acked
    dfH,            \* Deferral: per node, the handler invocation of its delivery loop
    dfLog,          \* Deferral: the committed enriched.periodic.heartbeat events
    dfSkips,        \* Deferral: per message, how often it was skipped (saturating)
    dfFaults        \* Deferral: failures injected so far

rxVars == <<rxTrigger, rxRows, rxH, rxLog, rxDeliveries, rxAcked, rxFaults,
            rxExecuted, rxRolledBack>>

enVars == <<enSignals, enSnapshot, enH, enLog, enDeliveries, enAcked, enFaults,
            enLost>>

inVars == <<inEvent, inRules, inH, inLog, inDeliveries, inAcked, inFaults>>

prVars == <<prEvents, prInstances, prH, prLog, prDeliveries, prAcked, prFaults,
            prOverlapped>>

tgVars == <<tgSignals, tgSnapshot, tgEnriched, tgMatches, tgRows, tgRan, tgPos>>

hbVars == <<hbPayload, hbH, hbLog, hbDeliveries, hbAcked, hbFaults>>

emVars == <<emPlan, emH, emQueue, emLog, emDeliveries, emAcked, emFaults,
            emRolledBack>>

stVars == <<stConfig, stPc, stIdx, stError, stRegistered, stHandlers, stConsuming>>

owVars == <<owRunning, owPos, owRead, owWrote>>

clVars == <<clEventType, clResults>>

exVars == <<exConfig, exPc, exIdx, exError, exNodes, exInstances, exConnectors,
            exHandlers, exConsuming, exIntervalId, exTimers, exEmitted>>

dkVars == <<dkCalls, dkKeys>>

dfVars == <<dfSignals, dfStatus, dfH, dfLog, dfSkips, dfFaults>>

vars == <<rxVars, enVars, inVars, prVars, tgVars, hbVars, emVars, stVars, owVars,
          clVars, exVars, dkVars, dfVars>>

\* A step of one node leaves the other nodes' state as it is.
OnlyReaction ==
    UNCHANGED <<enVars, inVars, prVars, tgVars, hbVars, emVars, stVars, owVars,
                 clVars, exVars, dkVars, dfVars>>
OnlyEnrich ==
    UNCHANGED <<rxVars, inVars, prVars, tgVars, hbVars, emVars, stVars, owVars,
                 clVars, exVars, dkVars, dfVars>>
OnlyInterest ==
    UNCHANGED <<rxVars, enVars, prVars, tgVars, hbVars, emVars, stVars, owVars,
                 clVars, exVars, dkVars, dfVars>>
OnlyProcess ==
    UNCHANGED <<rxVars, enVars, inVars, tgVars, hbVars, emVars, stVars, owVars,
                 clVars, exVars, dkVars, dfVars>>
OnlyHeartbeat ==
    UNCHANGED <<rxVars, enVars, inVars, prVars, tgVars, emVars, stVars, owVars,
                 clVars, exVars, dkVars, dfVars>>
OnlyEmission ==
    UNCHANGED <<rxVars, enVars, inVars, prVars, tgVars, hbVars, stVars, owVars,
                 clVars, exVars, dkVars, dfVars>>
OnlyStartup ==
    UNCHANGED <<rxVars, enVars, inVars, prVars, tgVars, hbVars, emVars, owVars,
                 clVars, exVars, dkVars, dfVars>>
OnlyOwnership ==
    UNCHANGED <<rxVars, enVars, inVars, prVars, tgVars, hbVars, emVars, stVars,
                 clVars, exVars, dkVars, dfVars>>
OnlyClassification ==
    UNCHANGED <<rxVars, enVars, inVars, prVars, tgVars, hbVars, emVars, stVars,
                 owVars, exVars, dkVars, dfVars>>
OnlyPipeline ==
    UNCHANGED <<rxVars, enVars, inVars, prVars, hbVars, emVars, stVars, owVars,
                 clVars, exVars, dkVars, dfVars>>
OnlyExecutor ==
    UNCHANGED <<rxVars, enVars, inVars, prVars, tgVars, hbVars, emVars, stVars,
                 owVars, clVars, dkVars, dfVars>>
OnlyDedupeKey ==
    UNCHANGED <<rxVars, enVars, inVars, prVars, tgVars, hbVars, emVars, stVars,
                 owVars, clVars, exVars, dfVars>>
OnlyDeferral ==
    UNCHANGED <<rxVars, enVars, inVars, prVars, tgVars, hbVars, emVars, stVars,
                 owVars, clVars, exVars, dkVars>>

\* ------------------------------------------------------- Reaction Executor
\* The action values of a rule's (or the node configuration's) action list.
\* "echo", "slack_notification", "emit_event", "create_ticket" are the adapter
\* types; "bogus" is an object with any other type; "null" is a JSON null.
KnownActionTypes == {"echo", "slack_notification", "emit_event", "create_ticket"}
ActionValues == {"echo", "create_ticket", "bogus", "null"}

\* The action lists the model draws from.
ActionLists ==
    {<<a>> : a \in ActionValues} \cup
    {<<"bogus", "echo">>, <<"echo", "bogus">>, <<"echo", "create_ticket">>,
     <<"null", "echo">>, <<"bogus", "bogus">>}

Namespace == "ns"
TriggerEventType == "enriched.web.content_delta"

\* ruleId of a trigger: the rule's id for interest.match (part_001:156), and
\* `direct-${event.eventType}` for a directly configured trigger (part_001:62).
RuleIdOf(kind) ==
    IF kind = "match" THEN "rule-1" ELSE <<"direct-", TriggerEventType>>

\* utils.ts sha256: a fingerprint of the content, taken to be free of collisions.
sha256(content) == <<"sha256", content>>

SourceUrl == "https://example.test/page"

\* JSON.stringify of an enriched.web.content_delta payload (part_000:68-73):
\* an undefined previousHash is left out.
JsonStringify(payload) ==
    <<"source", payload.source, "summary", "Content changed", "hash", payload.hash>>
    \o (IF payload.previousHash = NoValue
        THEN <<>> ELSE <<"previousHash", payload.previousHash>>)

\* Array.prototype.join("|") of strings, a string being the sequence of its
\* characters (or of larger pieces that hold no "|").
RECURSIVE Join(_)
Join(parts) ==
    IF parts = <<>> THEN <<>>
    ELSE IF Len(parts) = 1 THEN parts[1]
    ELSE parts[1] \o <<"|">> \o Join(Tail(parts))

\* utils.ts:97-103 keyParts.
KeyParts(namespace, ruleId, actionIndex, event) ==
    <<namespace, ruleId, <<ToString(actionIndex)>>, event.eventType,
      JsonStringify(event.payload)>>

\* utils.ts:91-105 generateDedupeKey: sha256 of namespace | ruleId |
\* actionIndex | event.eventType | JSON.stringify(event.payload).  Nothing
\* else of the envelope (emittedAt, producerNodeId, messageId) is read.
generateDedupeKey(namespace, ruleId, actionIndex, event) ==
    sha256(Join(KeyParts(namespace, ruleId, actionIndex, event)))

\* The payload of the triggering event of SpecReaction.
TriggerPayload ==
    [source |-> SourceUrl, hash |-> sha256(<<"a">>), previousHash |-> NoValue]

DedupeKeyOf(actionIndex) ==
    generateDedupeKey(<<Namespace>>, <<rxTrigger.ruleId>>, actionIndex,
                      [eventType |-> <<TriggerEventType>>, payload |-> TriggerPayload])

UniqueViolation == "duplicate key value violates unique constraint"
QueryFailed == "query failed"
TypeErrorMsg == "Cannot read properties of null"
UnknownActionMsg == "Unknown action type"

\* ReactionNode.executeAction: the adapters return completed; any other type
\* returns failed; reading .type of null throws inside the try and is returned
\* as failed.  A status "thrown" stands for the call throwing the error.
executeActionMutantDefaultThrows(action) ==
    IF action \in KnownActionTypes
    THEN [status |-> "completed", error |-> NoValue]
    ELSE IF action = "null"
         THEN [status |-> "failed", error |-> TypeErrorMsg]
         ELSE [status |-> "thrown", error |-> UnknownActionMsg]

executeAction(action) ==
    IF action \in KnownActionTypes
    THEN [status |-> "completed", error |-> NoValue]
    ELSE IF action = "null"
         THEN [status |-> "failed", error |-> TypeErrorMsg]
         ELSE [status |-> "failed", error |-> UnknownActionMsg]

\* SELECT execution_id FROM core.reaction_executions WHERE namespace, dedupe_key
ExistingRows(key) == {r \in rxRows : r.dedupe_key = key}

\* part_001:176 (and :75) if (existing.length > 0) continue.
AlreadyExecutedMutantOnlyTerminal(existing) ==
    \E r \in existing : r.status \in {"completed", "failed"}

AlreadyExecuted(existing) == existing # {}

\* gen_random_uuid(): rows are never deleted, so the count names a fresh id.
NewExecutionId == Cardinality(rxRows) + 1

IdleHandler ==
    [pc |-> "idle", idx |-> 0, executionId |-> 0, result |-> NoValue,
     error |-> NoValue, tx |-> <<>>, aborted |-> FALSE, lost |-> {},
     ran |-> {}, wrote |-> FALSE, persistFailed |-> FALSE, found |-> {},
     touched |-> {}]

ReactionExecuted(executionId, actionIndex, status, error) ==
    [eventType |-> "reaction.executed", executionId |-> executionId,
     ruleId |-> rxTrigger.ruleId, actionIndex |-> actionIndex,
     status |-> status, error |-> error]

\* The for loop's step: actionIndex++ and the loop test.
NextActionMutantBreakOnFailure(hrec) ==
    IF hrec.idx + 1 < Len(rxTrigger.actions) /\ hrec.result # "failed"
    THEN [hrec EXCEPT !.idx = hrec.idx + 1, !.pc = "select",
                      !.result = NoValue, !.error = NoValue, !.executionId = 0]
    ELSE [hrec EXCEPT !.idx = hrec.idx + 1, !.pc = "return"]

NextAction(hrec) ==
    IF hrec.idx + 1 < Len(rxTrigger.actions)
    THEN [hrec EXCEPT !.idx = hrec.idx + 1, !.pc = "select",
                      !.result = NoValue, !.error = NoValue, !.executionId = 0]
    ELSE [hrec EXCEPT !.idx = hrec.idx + 1, !.pc = "return"]

RxParked ==
    /\ rxTrigger = [kind |-> "match", ruleId |-> RuleIdOf("match"), actions |-> <<>>]
    /\ rxRows = {}
    /\ rxH = [h \in Handlers |-> IdleHandler]
    /\ rxLog = <<>>
    /\ rxDeliveries = 0
    /\ rxAcked = FALSE
    /\ rxFaults = 0
    /\ rxExecuted = [i \in 1..2 |-> 0]
    /\ rxRolledBack = FALSE

RxStart ==
    /\ \E kind \in {"match", "direct"}, actions \in ActionLists :
          rxTrigger = [kind |-> kind, ruleId |-> RuleIdOf(kind), actions |-> actions]
    /\ rxRows = {}
    /\ rxH = [h \in Handlers |-> IdleHandler]
    /\ rxLog = <<>>
    /\ rxDeliveries = 0
    /\ rxAcked = FALSE
    /\ rxFaults = 0
    /\ rxExecuted = [i \in 1..2 |-> 0]
    /\ rxRolledBack = FALSE

\* The event bus hands the triggering event to a delivery loop, in a fresh
\* transaction.  A message that was not acknowledged may be delivered again,
\* also while an earlier delivery is still being handled.
RxDeliver(h) ==
    /\ OnlyReaction
    /\ rxH[h].pc = "idle"
    /\ ~rxAcked
    /\ rxDeliveries < MaxDeliveries
    /\ rxDeliveries' = rxDeliveries + 1
    /\ rxH' = [rxH EXCEPT ![h] = [IdleHandler EXCEPT !.pc = "select"]]
    /\ UNCHANGED <<rxTrigger, rxRows, rxLog, rxAcked, rxFaults, rxExecuted, rxRolledBack>>

\* part_001:170-179 the existence lookup and the idempotency short-circuit.
\* found remembers the actions whose row was there when the lookup ran.
RxSelect(h) ==
    /\ OnlyReaction
    /\ rxH[h].pc = "select"
    /\ LET looked == [rxH[h] EXCEPT !.found =
                         IF \E r \in rxRows : r.dedupe_key = DedupeKeyOf(rxH[h].idx)
                         THEN @ \cup {rxH[h].idx} ELSE @] IN
       rxH' = [rxH EXCEPT ![h] =
                 IF AlreadyExecuted(ExistingRows(DedupeKeyOf(rxH[h].idx)))
                 THEN NextAction(looked)
                 ELSE [looked EXCEPT !.pc = "insert"]]
    /\ UNCHANGED <<rxTrigger, rxRows, rxLog, rxDeliveries, rxAcked, rxFaults,
                   rxExecuted, rxRolledBack>>

\* part_001:182-190 INSERT ... 'pending' RETURNING execution_id.  The unique
\* (namespace, dedupe_key) constraint makes the INSERT throw when a row exists.
RxInsert(h) ==
    /\ OnlyReaction
    /\ rxH[h].pc = "insert"
    /\ LET key == DedupeKeyOf(rxH[h].idx) IN
       IF ExistingRows(key) # {}
       THEN /\ rxH' = [rxH EXCEPT ![h] =
                         [rxH[h] EXCEPT !.pc = "catch", !.error = UniqueViolation,
                                        !.lost = @ \cup {rxH[h].idx}]]
            /\ UNCHANGED rxRows
       ELSE /\ rxRows' = rxRows \cup
                  {[dedupe_key |-> key, execution_id |-> NewExecutionId,
                    rule_id |-> rxTrigger.ruleId, action_index |-> rxH[h].idx,
                    status |-> "pending", error |-> NoValue]}
            /\ rxH' = [rxH EXCEPT ![h] =
                         [rxH[h] EXCEPT !.pc = "execute",
                                        !.executionId = NewExecutionId,
                                        !.wrote = TRUE,
                                        !.touched = @ \cup {rxH[h].idx}]]
    /\ UNCHANGED <<rxTrigger, rxLog, rxDeliveries, rxAcked, rxFaults, rxExecuted,
                   rxRolledBack>>

\* part_001:193-194 the log line reads action.type (a null action throws
\* here, inside the try), then executeAction runs the adapter; the call is
\* inside the try, so an error it threw would be caught.
RxExecute(h) ==
    /\ OnlyReaction
    /\ rxH[h].pc = "execute"
    /\ LET action == rxTrigger.actions[rxH[h].idx + 1] IN
       IF action = "null"
       THEN /\ rxH' = [rxH EXCEPT ![h] =
                         [rxH[h] EXCEPT !.pc = "catch", !.error = TypeErrorMsg]]
            /\ UNCHANGED rxExecuted
       ELSE /\ rxH' = [rxH EXCEPT ![h] =
                         IF executeAction(action).status = "thrown"
                         THEN [rxH[h] EXCEPT !.pc = "catch",
                                             !.error = executeAction(action).error,
                                             !.ran = @ \cup {rxH[h].idx}]
                         ELSE [rxH[h] EXCEPT !.pc = "update",
                                             !.result = executeAction(action).status,
                                             !.error = executeAction(action).error,
                                             !.ran = @ \cup {rxH[h].idx}]]
            /\ rxExecuted' = [rxExecuted EXCEPT ![rxH[h].idx + 1] = @ + 1]
    /\ UNCHANGED <<rxTrigger, rxRows, rxLog, rxDeliveries, rxAcked, rxFaults,
                   rxRolledBack>>

\* part_001:197-202 UPDATE ... SET status=$1 WHERE execution_id=$3.
RxUpdate(h) ==
    /\ OnlyReaction
    /\ rxH[h].pc = "update"
    /\ rxRows' = {IF r.execution_id = rxH[h].executionId
                  THEN [r EXCEPT !.status = rxH[h].result]
                  ELSE r : r \in rxRows}
    /\ rxH' = [rxH EXCEPT ![h] = [rxH[h] EXCEPT !.pc = "emit",
                                                !.touched = @ \cup {rxH[h].idx}]]
    /\ UNCHANGED <<rxTrigger, rxLog, rxDeliveries, rxAcked, rxFaults, rxExecuted,
                   rxRolledBack>>

\* part_001:207-221 emitFromTransaction on the delivery's client.  A statement
\* on a transaction that already failed throws.
RxEmit(h) ==
    /\ OnlyReaction
    /\ rxH[h].pc = "emit"
    /\ rxH' = [rxH EXCEPT ![h] =
                 IF rxH[h].aborted
                 THEN [rxH[h] EXCEPT !.pc = "catch", !.error = QueryFailed]
                 ELSE NextAction(
                        [rxH[h] EXCEPT !.tx = Append(@,
                            ReactionExecuted(rxH[h].executionId, rxH[h].idx,
                                             rxH[h].result, rxH[h].error))])]
    /\ UNCHANGED <<rxTrigger, rxRows, rxLog, rxDeliveries, rxAcked, rxFaults,
                   rxExecuted, rxRolledBack>>

\* A statement of the try block throws for a reason of the infrastructure:
\* one of the pipelineDb queries, or the emit on the client (which leaves the
\* delivery's transaction failed).  persistFailed remembers that the delivery
\* could not write its row: the pending INSERT or the status UPDATE threw.
RxQueryThrows(h) ==
    /\ OnlyReaction
    /\ rxH[h].pc \in {"select", "insert", "update", "emit"}
    /\ rxFaults < MaxFaults
    /\ rxFaults' = rxFaults + 1
    /\ rxH' = [rxH EXCEPT ![h] =
                 [rxH[h] EXCEPT !.pc = "catch", !.error = QueryFailed,
                                !.aborted = (rxH[h].pc = "emit") \/ @,
                                !.persistFailed = (rxH[h].pc \in {"insert", "update"}) \/ @]]
    /\ UNCHANGED <<rxTrigger, rxRows, rxLog, rxDeliveries, rxAcked, rxExecuted,
                   rxRolledBack>>

\* part_001:223-232 the catch block's upsert: INSERT ... 'failed' ON CONFLICT
\* (namespace, dedupe_key) DO UPDATE SET status='failed', error=EXCLUDED.error.
CatchUpsert(key, idx, errorMessage) ==
    IF ExistingRows(key) # {}
    THEN {IF r.dedupe_key = key
          THEN [r EXCEPT !.status = "failed", !.error = errorMessage]
          ELSE r : r \in rxRows}
    ELSE rxRows \cup
           {[dedupe_key |-> key, execution_id |-> NewExecutionId,
             rule_id |-> rxTrigger.ruleId, action_index |-> idx,
             status |-> "failed", error |-> errorMessage]}

RxCatchUpsert(h) ==
    /\ OnlyReaction
    /\ rxH[h].pc = "catch"
    /\ rxRows' = CatchUpsert(DedupeKeyOf(rxH[h].idx), rxH[h].idx, rxH[h].error)
    /\ rxH' = [rxH EXCEPT ![h] = [rxH[h] EXCEPT !.pc = "catch_emit", !.wrote = TRUE,
                                                !.touched = @ \cup {rxH[h].idx}]]
    /\ UNCHANGED <<rxTrigger, rxLog, rxDeliveries, rxAcked, rxFaults, rxExecuted,
                   rxRolledBack>>

\* part_001:235-248 the catch block's emit, status "failed", executionId "".
\* It is not inside a try: when it throws, the handler throws.
RxCatchEmit(h) ==
    /\ OnlyReaction
    /\ rxH[h].pc = "catch_emit"
    /\ rxH' = [rxH EXCEPT ![h] =
                 IF rxH[h].aborted
                 THEN [rxH[h] EXCEPT !.pc = "throw"]
                 ELSE NextAction(
                        [rxH[h] EXCEPT !.result = "failed",
                                       !.tx = Append(@,
                            ReactionExecuted(0, rxH[h].idx, "failed", rxH[h].error))])]
    /\ UNCHANGED <<rxTrigger, rxRows, rxLog, rxDeliveries, rxAcked, rxFaults,
                   rxExecuted, rxRolledBack>>

\* A statement of the catch block throws (the upsert or the emit).
RxCatchThrows(h) ==
    /\ OnlyReaction
    /\ rxH[h].pc \in {"catch", "catch_emit"}
    /\ rxFaults < MaxFaults
    /\ rxFaults' = rxFaults + 1
    /\ rxH' = [rxH EXCEPT ![h] = [rxH[h] EXCEPT !.pc = "throw"]]
    /\ UNCHANGED <<rxTrigger, rxRows, rxLog, rxDeliveries, rxAcked, rxExecuted,
                   rxRolledBack>>

\* The handler returned: the event bus commits the delivery's transaction (the
\* emitted events become visible) and acknowledges the message.
RxCommit(h) ==
    /\ OnlyReaction
    /\ rxH[h].pc = "return"
    /\ rxLog' = rxLog \o rxH[h].tx
    /\ rxAcked' = TRUE
    /\ rxH' = [rxH EXCEPT ![h] = IdleHandler]
    /\ UNCHANGED <<rxTrigger, rxRows, rxDeliveries, rxFaults, rxExecuted, rxRolledBack>>

\* The handler threw: the event bus rolls the delivery's transaction back (the
\* emitted events are dropped) and the message becomes visible again.
RxRollback(h) ==
    /\ OnlyReaction
    /\ rxH[h].pc = "throw"
    /\ rxRolledBack' = (rxRolledBack \/ rxH[h].wrote)
    /\ rxH' = [rxH EXCEPT ![h] = IdleHandler]
    /\ UNCHANGED <<rxTrigger, rxRows, rxLog, rxDeliveries, rxAcked, rxFaults, rxExecuted>>

\* The delivery is cut off (the process stops, the connection is lost, the
\* commit fails): its transaction is rolled back.
RxCrash(h) ==
    /\ OnlyReaction
    /\ rxH[h].pc \notin {"idle", "throw"}
    /\ rxFaults < MaxFaults
    /\ rxFaults' = rxFaults + 1
    /\ rxRolledBack' = (rxRolledBack \/ rxH[h].wrote)
    /\ rxH' = [rxH EXCEPT ![h] = IdleHandler]
    /\ UNCHANGED <<rxTrigger, rxRows, rxLog, rxDeliveries, rxAcked, rxExecuted>>

\* ---------------------------------------------------------- Enrich/Diff
\* The characters of a body: letters, markup brackets and whitespace.
Whitespace == {" ", "NL"}

\* The bodies the model draws from: "a", " a\n", "> \n<", "><".
Bodies ==
    {<<"a">>, <<" ", "a", "NL">>, <<">", " ", "NL", "<">>, <<">", "<">>}

\* The signal.web.snapshot messages of one source, as the connector emitted them.
SignalLists ==
    {<<b>> : b \in Bodies} \cup {<<b1, b2>> : b1 \in Bodies, b2 \in Bodies}

\* utils.ts normalizeHtml, step 1: .replace(/\s+/g, " ").
RECURSIVE CollapseWhitespace(_)
CollapseWhitespace(html) ==
    IF html = <<>> THEN <<>>
    ELSE IF Head(html) \in Whitespace
         THEN IF Len(html) > 1 /\ html[2] \in Whitespace
              THEN CollapseWhitespace(Tail(html))
              ELSE <<" ">> \o CollapseWhitespace(Tail(html))
         ELSE <<Head(html)>> \o CollapseWhitespace(Tail(html))

\* utils.ts normalizeHtml, step 2: .replace(/>\s+</g, "><"), on a string
\* whose whitespace runs are single blanks.
RECURSIVE CloseTagGaps(_)
CloseTagGaps(html) ==
    IF Len(html) < 3 THEN html
    ELSE IF html[1] = ">" /\ html[2] \in Whitespace /\ html[3] = "<"
         THEN <<">">> \o CloseTagGaps(Tail(Tail(html)))
         ELSE <<Head(html)>> \o CloseTagGaps(Tail(html))

\* utils.ts normalizeHtml, step 3: .trim().
RECURSIVE TrimLeft(_)
TrimLeft(html) ==
    IF html # <<>> /\ Head(html) \in Whitespace THEN TrimLeft(Tail(html)) ELSE html

RECURSIVE TrimRight(_)
TrimRight(html) ==
    IF html # <<>> /\ html[Len(html)] \in Whitespace
    THEN TrimRight(SubSeq(html, 1, Len(html) - 1))
    ELSE html

normalizeHtml(html) == TrimRight(TrimLeft(CloseTagGaps(CollapseWhitespace(html))))

HashOf(body) == sha256(normalizeHtml(body))

\* part_000:50 changed = !prev?.hash || prev.hash !== hash
ChangedMutantOnlyFirst(prev, hash) == prev = NoValue

Changed(prev, hash) == prev = NoValue \/ prev # hash

EnIdleHandler ==
    [pc |-> "idle", msg |-> 0, hash |-> NoValue, prev |-> NoValue,
     changed |-> FALSE, tx |-> <<>>, wrote |-> FALSE]

EnParked ==
    /\ enSignals = <<>>
    /\ enSnapshot = NoValue
    /\ enH = [h \in Handlers |-> EnIdleHandler]
    /\ enLog = <<>>
    /\ enDeliveries = <<>>
    /\ enAcked = <<>>
    /\ enFaults = 0
    /\ enLost = FALSE

EnStart ==
    /\ enSignals \in SignalLists
    /\ enSnapshot = NoValue
    /\ enH = [h \in Handlers |-> EnIdleHandler]
    /\ enLog = <<>>
    /\ enDeliveries = [m \in 1..Len(enSignals) |-> 0]
    /\ enAcked = [m \in 1..Len(enSignals) |-> FALSE]
    /\ enFaults = 0
    /\ enLost = FALSE

\* The event bus hands message m to a delivery loop, in a fresh transaction;
\* part_000:37-39 the handler normalizes the body and fingerprints it.
EnDeliver(h, m) ==
    /\ OnlyEnrich
    /\ enH[h].pc = "idle"
    /\ ~enAcked[m]
    /\ enDeliveries[m] < MaxDeliveries
    /\ enDeliveries' = [enDeliveries EXCEPT ![m] = @ + 1]
    /\ enH' = [enH EXCEPT ![h] =
                 [EnIdleHandler EXCEPT !.pc = "select", !.msg = m,
                                       !.hash = HashOf(enSignals[m])]]
    /\ UNCHANGED <<enSignals, enSnapshot, enLog, enAcked, enFaults, enLost>>

\* part_000:43-50 the read of the prior snapshot and the decision.
EnSelect(h) ==
    /\ OnlyEnrich
    /\ enH[h].pc = "select"
    /\ enH' = [enH EXCEPT ![h] =
                 [enH[h] EXCEPT !.pc = "upsert", !.prev = enSnapshot,
                                !.changed = Changed(enSnapshot, enH[h].hash)]]
    /\ UNCHANGED <<enSignals, enSnapshot, enLog, enDeliveries, enAcked, enFaults, enLost>>

\* part_000:53-59 the upsert of the snapshot, whether or not it changed.
EnUpsert(h) ==
    /\ OnlyEnrich
    /\ enH[h].pc = "upsert"
    /\ enSnapshot' = enH[h].hash
    /\ enH' = [enH EXCEPT ![h] =
                 [enH[h] EXCEPT !.pc = IF enH[h].changed THEN "emit" ELSE "return",
                                !.wrote = TRUE]]
    /\ UNCHANGED <<enSignals, enLog, enDeliveries, enAcked, enFaults, enLost>>

\* part_000:62-76 the enriched event, emitted through the delivery's client.
EnEmit(h) ==
    /\ OnlyEnrich
    /\ enH[h].pc = "emit"
    /\ enH' = [enH EXCEPT ![h] =
                 [enH[h] EXCEPT !.pc = "return",
                     !.tx = Append(@, [eventType |-> "enriched.web.content_delta",
                                       hash |-> enH[h].hash,
                                       previousHash |-> enH[h].prev])]]
    /\ UNCHANGED <<enSignals, enSnapshot, enLog, enDeliveries, enAcked, enFaults, enLost>>

\* A query or the emit throws (the handler has no try block), or the commit
\* of the delivery fails.
EnThrows(h) ==
    /\ OnlyEnrich
    /\ enH[h].pc \in {"select", "upsert", "emit", "return"}
    /\ enFaults < MaxFaults
    /\ enFaults' = enFaults + 1
    /\ enH' = [enH EXCEPT ![h] = [enH[h] EXCEPT !.pc = "throw"]]
    /\ UNCHANGED <<enSignals, enSnapshot, enLog, enDeliveries, enAcked, enLost>>

\* The handler returned: the delivery commits and the message is acknowledged.
EnCommit(h) ==
    /\ OnlyEnrich
    /\ enH[h].pc = "return"
    /\ enLog' = enLog \o enH[h].tx
    /\ enAcked' = [enAcked EXCEPT ![enH[h].msg] = TRUE]
    /\ enH' = [enH EXCEPT ![h] = EnIdleHandler]
    /\ UNCHANGED <<enSignals, enSnapshot, enDeliveries, enFaults, enLost>>

\* The handler threw: the delivery is rolled back, the message is visible again.
EnRollback(h) ==
    /\ OnlyEnrich
    /\ enH[h].pc = "throw"
    /\ enLost' = (enLost \/ enH[h].wrote)
    /\ enH' = [enH EXCEPT ![h] = EnIdleHandler]
    /\ UNCHANGED <<enSignals, enSnapshot, enLog, enDeliveries, enAcked, enFaults>>

\* ------------------------------------------------------- Interest Filter
\* What evaluating a rule's condition_expr against the event's payload does:
\* the expression is true, is false, or evaluating it throws.
ConditionOutcomes == {"true", "false", "throws"}

EventTypes == {"enriched.web.content_delta", "enriched.metric.aggregated"}

RuleIds == {"R1", "R2"}

\* A row of core.interest_rules.
Rules ==
    [namespace : {Namespace, "other"}, rule_id : RuleIds, name : {"n1", "n2"},
     event_type : EventTypes,
     enabled : BOOLEAN, condition_expr : ConditionOutcomes,
     actions : {<<>>, <<"echo">>}]

SignalHeartbeatType == "signal.periodic.heartbeat"

\* The envelopes delivered to the Interest Filter: an enriched event, or the
\* heartbeat signal that the enricher has yet to process.
InEnvelopes ==
    {[namespace |-> Namespace, eventType |-> TriggerEventType,
      payload |-> [source |-> SourceUrl, summary |-> "Content changed"],
      producerNodeId |-> "enricher"],
     [namespace |-> Namespace, eventType |-> SignalHeartbeatType,
      payload |-> [value |-> TRUE, count |-> 1],
      producerNodeId |-> "connector"]}

\* pipeline-executor.ts:200-226 start(): the handler registered for the type.
HandlerForMutantEverythingFiltered(eventType) == "select"

HandlerFor(eventType) ==
    IF eventType = SignalHeartbeatType THEN "skip" ELSE "select"

\* The tables the model draws from: (namespace, rule_id) is the primary key.
RuleTables ==
    {<<>>} \cup {<<r>> : r \in Rules} \cup
    {t \in {<<r1, r2>> : r1 \in Rules, r2 \in Rules} :
        <<t[1].namespace, t[1].rule_id>> # <<t[2].namespace, t[2].rule_id>>}

\* utils.ts evalCondition: Boolean(fn(payload)), and false when it throws.
evalConditionMutantErrorMatches(conditionExpr) == conditionExpr # "false"

evalCondition(conditionExpr) == conditionExpr = "true"

\* pipeline-executor.ts:236-240 SELECT * FROM core.interest_rules WHERE
\* namespace=$1 AND event_type=$2 AND enabled=TRUE.
RECURSIVE SelectRowsMutantIgnoreEnabled(_, _, _)
SelectRowsMutantIgnoreEnabled(table, namespace, eventType) ==
    IF table = <<>> THEN <<>>
    ELSE IF Head(table).namespace = namespace /\ Head(table).event_type = eventType
         THEN <<Head(table)>> \o
              SelectRowsMutantIgnoreEnabled(Tail(table), namespace, eventType)
         ELSE SelectRowsMutantIgnoreEnabled(Tail(table), namespace, eventType)

RECURSIVE SelectRows(_, _, _)
SelectRows(table, namespace, eventType) ==
    IF table = <<>> THEN <<>>
    ELSE IF /\ Head(table).namespace = namespace
            /\ Head(table).event_type = eventType
            /\ Head(table).enabled
         THEN <<Head(table)>> \o SelectRows(Tail(table), namespace, eventType)
         ELSE SelectRows(Tail(table), namespace, eventType)

\* pipeline-executor.ts:263-274 the interest.match envelope for a rule.
InterestMatchMutantTrimmedEvent(rule, event) ==
    [namespace |-> event.namespace,
     eventType |-> "interest.match",
     ruleId |-> rule.rule_id,
     ruleName |-> rule.name,
     event |-> [event EXCEPT !.payload = [source |-> SourceUrl]],
     actions |-> rule.actions,
     producerNodeId |-> event.producerNodeId]

InterestMatch(rule, event) ==
    [namespace |-> event.namespace,
     eventType |-> "interest.match",
     ruleId |-> rule.rule_id,
     ruleName |-> rule.name,
     event |-> event,
     actions |-> rule.actions,
     producerNodeId |-> event.producerNodeId]

InIdleHandler ==
    [pc |-> "idle", rules |-> <<>>, i |-> 0, tx |-> <<>>, aborted |-> FALSE,
     read |-> FALSE, error |-> NoValue]

InParked ==
    /\ inEvent = [namespace |-> Namespace, eventType |-> TriggerEventType,
                  payload |-> [source |-> SourceUrl, summary |-> "Content changed"],
                  producerNodeId |-> "enricher"]
    /\ inRules = <<>>
    /\ inH = InIdleHandler
    /\ inLog = <<>>
    /\ inDeliveries = 0
    /\ inAcked = FALSE
    /\ inFaults = 0

InStart ==
    /\ inEvent \in InEnvelopes
    /\ inRules \in RuleTables
    /\ inH = InIdleHandler
    /\ inLog = <<>>
    /\ inDeliveries = 0
    /\ inAcked = FALSE
    /\ inFaults = 0

\* for (const rule of rules): the next rule, or the end of the handler.
InNextRule(hrec) ==
    IF hrec.i < Len(hrec.rules)
    THEN [hrec EXCEPT !.i = hrec.i + 1, !.pc = "evaluate"]
    ELSE [hrec EXCEPT !.pc = "return"]

\* The event bus hands the enriched event to the handler, in a fresh transaction.
InDeliver ==
    /\ OnlyInterest
    /\ inH.pc = "idle"
    /\ ~inAcked
    /\ inDeliveries < MaxDeliveries
    /\ inDeliveries' = inDeliveries + 1
    /\ inH' = [InIdleHandler EXCEPT !.pc = HandlerFor(inEvent.eventType)]
    /\ UNCHANGED <<inEvent, inRules, inLog, inAcked, inFaults>>

\* pipeline-executor.ts:236-247 load the enabled rules of (namespace,
\* eventType); return when there is none.
InSelect ==
    /\ OnlyInterest
    /\ inH.pc = "select"
    /\ LET rows == SelectRows(inRules, inEvent.namespace, inEvent.eventType) IN
       inH' = IF rows = <<>>
              THEN [inH EXCEPT !.pc = "return", !.read = TRUE]
              ELSE [inH EXCEPT !.rules = rows, !.i = 1, !.pc = "evaluate",
                               !.read = TRUE]
    /\ UNCHANGED <<inEvent, inRules, inLog, inDeliveries, inAcked, inFaults>>

\* pipeline-executor.ts:256-259 evaluate the rule's condition.
InEvaluate ==
    /\ OnlyInterest
    /\ inH.pc = "evaluate"
    /\ inH' = IF evalCondition(inH.rules[inH.i].condition_expr)
              THEN [inH EXCEPT !.pc = "emit"]
              ELSE InNextRule(inH)
    /\ UNCHANGED <<inEvent, inRules, inLog, inDeliveries, inAcked, inFaults>>

\* pipeline-executor.ts:262-275 emit interest.match for the rule.  On a
\* transaction that already failed the emit throws, and
\* pipeline-executor.ts:277-280 the catch logs it and goes on.
InEmit ==
    /\ OnlyInterest
    /\ inH.pc = "emit"
    /\ inH' = IF inH.aborted
              THEN InNextRule(inH)
              ELSE InNextRule([inH EXCEPT !.tx = Append(@,
                        InterestMatch(inH.rules[inH.i], inEvent))])
    /\ UNCHANGED <<inEvent, inRules, inLog, inDeliveries, inAcked, inFaults>>

\* The emit throws; the delivery's transaction is left failed, and the catch
\* of pipeline-executor.ts:277-280 logs the error and goes on.
InEmitThrows ==
    /\ OnlyInterest
    /\ inH.pc = "emit"
    /\ inFaults < MaxFaults
    /\ inFaults' = inFaults + 1
    /\ inH' = InNextRule([inH EXCEPT !.aborted = TRUE])
    /\ UNCHANGED <<inEvent, inRules, inLog, inDeliveries, inAcked>>

\* pipeline-executor.ts:217-226 the handler of signal.periodic.heartbeat: it
\* logs a line and throws the error named SkipAcknowledgmentError.
InSkip ==
    /\ OnlyInterest
    /\ inH.pc = "skip"
    /\ inH' = [inH EXCEPT !.pc = "throw", !.error = "SkipAcknowledgmentError"]
    /\ UNCHANGED <<inEvent, inRules, inLog, inDeliveries, inAcked, inFaults>>

\* The query for the rules throws: it is outside the try, the handler throws.
InSelectThrows ==
    /\ OnlyInterest
    /\ inH.pc = "select"
    /\ inFaults < MaxFaults
    /\ inFaults' = inFaults + 1
    /\ inH' = [inH EXCEPT !.pc = "throw", !.error = QueryFailed]
    /\ UNCHANGED <<inEvent, inRules, inLog, inDeliveries, inAcked>>

\* The handler returned: the delivery commits and the event is acknowledged.
\* A transaction in which a statement failed cannot commit: it is rolled back.
InCommit ==
    /\ OnlyInterest
    /\ inH.pc = "return"
    /\ IF inH.aborted
       THEN UNCHANGED <<inLog, inAcked>>
       ELSE inLog' = inLog \o inH.tx /\ inAcked' = TRUE
    /\ inH' = InIdleHandler
    /\ UNCHANGED <<inEvent, inRules, inDeliveries, inFaults>>

\* The handler threw: the delivery is rolled back, the event is visible again.
InRollback ==
    /\ OnlyInterest
    /\ inH.pc = "throw"
    /\ inH' = InIdleHandler
    /\ UNCHANGED <<inEvent, inRules, inLog, inDeliveries, inAcked, inFaults>>

\* ---------------------------------------------------------- Process node
\* An event type is the sequence of the words it is written with; a type
\* starts with a prefix when the prefix's words are its first words.
StartsWith(eventType, prefix) ==
    /\ Len(eventType) >= Len(prefix)
    /\ SubSeq(eventType, 1, Len(prefix)) = prefix

InterestMatchType == <<"interest", ".", "match">>
HeartbeatType == <<"enriched", ".", "periodic", ".", "heartbeat">>
ReactionExecutedType == <<"reaction", ".", "executed">>

\* processNode.ts determineProcessType.
determineProcessTypeMutantEnrichedFirst(eventType) ==
    IF StartsWith(eventType, InterestMatchType) THEN "monitoring"
    ELSE IF StartsWith(eventType, <<"enriched", ".">>) THEN "enrichment-process"
    ELSE IF StartsWith(eventType, HeartbeatType) THEN "heartbeat-monitoring"
    ELSE NoValue

determineProcessType(eventType) ==
    IF StartsWith(eventType, InterestMatchType) THEN "monitoring"
    ELSE IF StartsWith(eventType, HeartbeatType) THEN "heartbeat-monitoring"
    ELSE IF StartsWith(eventType, <<"enriched", ".">>) THEN "enrichment-process"
    ELSE NoValue

\* The events the model delivers to the Process node; `id` tells two events
\* of a run apart (emittedAt, messageId).
ProcessEventKinds ==
    {[eventType |-> ReactionExecutedType, status |-> "failed", ruleId |-> "R1"],
     [eventType |-> ReactionExecutedType, status |-> "failed", ruleId |-> "R2"],
     [eventType |-> ReactionExecutedType, status |-> "completed", ruleId |-> "R1"],
     [eventType |-> InterestMatchType, status |-> NoValue, ruleId |-> "R1"],
     [eventType |-> HeartbeatType, status |-> NoValue, ruleId |-> NoValue]}

WithId(e, id) ==
    [eventType |-> e.eventType, status |-> e.status, ruleId |-> e.ruleId, id |-> id]

ProcessEventLists ==
    {<<WithId(e, 1)>> : e \in ProcessEventKinds} \cup
    {<<WithId(e1, 1), WithId(e2, 2)>> : e1 \in ProcessEventKinds,
                                        e2 \in ProcessEventKinds}

\* processNode.ts:84-89 SELECT process_id ... WHERE type='incident' AND
\* state='open' ORDER BY created_at DESC LIMIT 1 (0: no row).
OpenIncidents ==
    {k \in 1..Len(prInstances) :
        prInstances[k].type = "incident" /\ prInstances[k].state = "open"}

SelectOpenIncidentMutantAnyInstance ==
    IF prInstances = <<>> THEN 0 ELSE Len(prInstances)

SelectOpenIncident ==
    IF OpenIncidents = {} THEN 0
    ELSE CHOOSE k \in OpenIncidents : \A j \in OpenIncidents : j <= k

PrIdleHandler ==
    [pc |-> "idle", msg |-> 0, existing |-> 0, processId |-> 0,
     created |-> FALSE, tx |-> <<>>]

PrParked ==
    /\ prEvents = <<>>
    /\ prInstances = <<>>
    /\ prH = [h \in Handlers |-> PrIdleHandler]
    /\ prLog = <<>>
    /\ prDeliveries = <<>>
    /\ prAcked = <<>>
    /\ prFaults = 0
    /\ prOverlapped = FALSE

PrStart ==
    /\ prEvents \in ProcessEventLists
    /\ prInstances = <<>>
    /\ prH = [h \in Handlers |-> PrIdleHandler]
    /\ prLog = <<>>
    /\ prDeliveries = [m \in 1..Len(prEvents) |-> 0]
    /\ prAcked = [m \in 1..Len(prEvents) |-> FALSE]
    /\ prFaults = 0
    /\ prOverlapped = FALSE

\* processNode.ts:24-39 the handler registered for the event's type, and its
\* first statement.
PrEntryMutantMergeWhenOpen(event) ==
    IF event.eventType = ReactionExecutedType
    THEN IF event.status = "failed" THEN "select" ELSE "return"
    ELSE IF determineProcessType(event.eventType) # NoValue
         THEN IF prInstances # <<>> THEN "select" ELSE "insert_process"
         ELSE "return"

PrEntry(event) ==
    IF event.eventType = ReactionExecutedType
    THEN IF event.status = "failed" THEN "select" ELSE "return"
    ELSE IF determineProcessType(event.eventType) # NoValue
         THEN "insert_process"
         ELSE "return"

\* The event bus hands event m to a delivery loop, in a fresh transaction.
PrDeliver(h, m) ==
    /\ OnlyProcess
    /\ prH[h].pc = "idle"
    /\ ~prAcked[m]
    /\ prDeliveries[m] < MaxDeliveries
    /\ prDeliveries' = [prDeliveries EXCEPT ![m] = @ + 1]
    /\ prOverlapped' = (prOverlapped \/ \E g \in Handlers : prH[g].pc # "idle")
    /\ prH' = [prH EXCEPT ![h] =
                 [PrIdleHandler EXCEPT !.pc = PrEntry(prEvents[m]), !.msg = m]]
    /\ UNCHANGED <<prEvents, prInstances, prLog, prAcked, prFaults>>

\* processNode.ts:84-93 createIncident: look for an open incident.
PrSelect(h) ==
    /\ OnlyProcess
    /\ prH[h].pc = "select"
    /\ prH' = [prH EXCEPT ![h] =
                 [prH[h] EXCEPT !.existing = SelectOpenIncident,
                                !.processId = SelectOpenIncident,
                                !.pc = IF SelectOpenIncident > 0
                                       THEN "append" ELSE "insert_incident"]]
    /\ UNCHANGED <<prEvents, prInstances, prLog, prDeliveries, prAcked, prFaults,
                   prOverlapped>>

\* processNode.ts:96-106 UPDATE core.process_instances SET data =
\* jsonb_set(data, '{events}', data->'events' || $1::jsonb) WHERE
\* process_id = $2: the events array with the event (a JSON object, so one
\* more element) concatenated at its end; no other column but updated_at is
\* set, and the row is the one with that process_id.
UpdateAppendMutantOverwrite(instances, processId, event) ==
    [instances EXCEPT ![processId].events = <<event>>]

UpdateAppend(instances, processId, event) ==
    [instances EXCEPT ![processId].events = Append(@, event)]

\* processNode.ts:96-106 append the event to the open incident's history.
PrAppend(h) ==
    /\ OnlyProcess
    /\ prH[h].pc = "append"
    /\ prInstances' = UpdateAppend(prInstances, prH[h].processId,
                                   prEvents[prH[h].msg])
    /\ prH' = [prH EXCEPT ![h] = [prH[h] EXCEPT !.pc = "emit_updated"]]
    /\ UNCHANGED <<prEvents, prLog, prDeliveries, prAcked, prFaults, prOverlapped>>

\* processNode.ts:109-114 emit process.updated.
PrEmitUpdated(h) ==
    /\ OnlyProcess
    /\ prH[h].pc = "emit_updated"
    /\ prH' = [prH EXCEPT ![h] =
                 [prH[h] EXCEPT !.pc = "return",
                     !.tx = Append(@, [eventType |-> "process.updated",
                                       processId |-> prH[h].processId,
                                       type |-> "incident", state |-> "open"])]]
    /\ UNCHANGED <<prEvents, prInstances, prLog, prDeliveries, prAcked, prFaults,
                   prOverlapped>>

\* processNode.ts:117-132 create a new incident, its history seeded with the
\* triggering event.
PrInsertIncident(h) ==
    /\ OnlyProcess
    /\ prH[h].pc = "insert_incident"
    /\ prInstances' = Append(prInstances,
                         [namespace |-> Namespace,
                          type |-> "incident", state |-> "open",
                          ruleId |-> prEvents[prH[h].msg].ruleId,
                          events |-> <<prEvents[prH[h].msg]>>])
    /\ prH' = [prH EXCEPT ![h] =
                 [prH[h] EXCEPT !.pc = "emit_started",
                                !.processId = Len(prInstances) + 1,
                                !.created = TRUE]]
    /\ UNCHANGED <<prEvents, prLog, prDeliveries, prAcked, prFaults, prOverlapped>>

\* processNode.ts:162-179 createOrUpdateProcess: always a new instance, in
\* state "started" for interest.match and "active" for an enriched event.
PrInsertProcess(h) ==
    /\ OnlyProcess
    /\ prH[h].pc = "insert_process"
    /\ LET event == prEvents[prH[h].msg] IN
       prInstances' = Append(prInstances,
                         [namespace |-> Namespace,
                          type |-> determineProcessType(event.eventType),
                          state |-> IF event.eventType = InterestMatchType
                                    THEN "started" ELSE "active",
                          ruleId |-> NoValue,
                          events |-> <<event>>])
    /\ prH' = [prH EXCEPT ![h] =
                 [prH[h] EXCEPT !.pc = "emit_started",
                                !.processId = Len(prInstances) + 1,
                                !.created = TRUE]]
    /\ UNCHANGED <<prEvents, prLog, prDeliveries, prAcked, prFaults, prOverlapped>>

\* processNode.ts:136-142 and :187-193 emit process.started; an incident's
\* creation goes on to emit incident.created.
PrEmitStarted(h) ==
    /\ OnlyProcess
    /\ prH[h].pc = "emit_started"
    /\ LET inst == prInstances[prH[h].processId] IN
       prH' = [prH EXCEPT ![h] =
                 [prH[h] EXCEPT
                     !.pc = IF inst.type = "incident"
                            THEN "emit_incident_created" ELSE "return",
                     !.tx = Append(@, [eventType |-> "process.started",
                                       processId |-> prH[h].processId,
                                       type |-> inst.type, state |-> inst.state])]]
    /\ UNCHANGED <<prEvents, prInstances, prLog, prDeliveries, prAcked, prFaults,
                   prOverlapped>>

\* processNode.ts:144-150 emit incident.created.
PrEmitIncidentCreated(h) ==
    /\ OnlyProcess
    /\ prH[h].pc = "emit_incident_created"
    /\ prH' = [prH EXCEPT ![h] =
                 [prH[h] EXCEPT !.pc = "return",
                     !.tx = Append(@, [eventType |-> "incident.created",
                                       processId |-> prH[h].processId,
                                       type |-> "incident", state |-> "open"])]]
    /\ UNCHANGED <<prEvents, prInstances, prLog, prDeliveries, prAcked, prFaults,
                   prOverlapped>>

\* A query or an emit throws (the handlers have no try block), or the commit
\* of the delivery fails.
PrThrows(h) ==
    /\ OnlyProcess
    /\ prH[h].pc \notin {"idle", "throw"}
    /\ prFaults < MaxFaults
    /\ prFaults' = prFaults + 1
    /\ prH' = [prH EXCEPT ![h] = [prH[h] EXCEPT !.pc = "throw"]]
    /\ UNCHANGED <<prEvents, prInstances, prLog, prDeliveries, prAcked, prOverlapped>>

\* The handler returned: the delivery commits and the event is acknowledged.
PrCommit(h) ==
    /\ OnlyProcess
    /\ prH[h].pc = "return"
    /\ prLog' = prLog \o prH[h].tx
    /\ prAcked' = [prAcked EXCEPT ![prH[h].msg] = TRUE]
    /\ prH' = [prH EXCEPT ![h] = PrIdleHandler]
    /\ UNCHANGED <<prEvents, prInstances, prDeliveries, prFaults, prOverlapped>>

\* The handler threw: the delivery is rolled back, the event is visible again.
PrRollback(h) ==
    /\ OnlyProcess
    /\ prH[h].pc = "throw"
    /\ prH' = [prH EXCEPT ![h] = PrIdleHandler]
    /\ UNCHANGED <<prEvents, prInstances, prLog, prDeliveries, prAcked, prFaults,
                   prOverlapped>>


\* ------------------------------------------- Enrich/Diff: the heartbeat
\* The payloads of a signal.periodic.heartbeat event.
HeartbeatPayloads == [value : BOOLEAN, count : 1..2]

HbIdleHandler == [pc |-> "idle", tx |-> <<>>]

HbParked ==
    /\ hbPayload = [value |-> FALSE, count |-> 1]
    /\ hbH = [h \in Handlers |-> HbIdleHandler]
    /\ hbLog = <<>>
    /\ hbDeliveries = 0
    /\ hbAcked = FALSE
    /\ hbFaults = 0

HbStart ==
    /\ hbPayload \in HeartbeatPayloads
    /\ hbH = [h \in Handlers |-> HbIdleHandler]
    /\ hbLog = <<>>
    /\ hbDeliveries = 0
    /\ hbAcked = FALSE
    /\ hbFaults = 0

\* The event bus hands the signal to a delivery loop, in a fresh transaction.
HbDeliver(h) ==
    /\ OnlyHeartbeat
    /\ hbH[h].pc = "idle"
    /\ ~hbAcked
    /\ hbDeliveries < MaxDeliveries
    /\ hbDeliveries' = hbDeliveries + 1
    /\ hbH' = [hbH EXCEPT ![h] = [HbIdleHandler EXCEPT !.pc = "emit"]]
    /\ UNCHANGED <<hbPayload, hbLog, hbAcked, hbFaults>>

\* part_000:82-104 handlePeriodicHeartbeat: no snapshot is read or written;
\* the enriched event is always emitted.
HbEmit(h) ==
    /\ OnlyHeartbeat
    /\ hbH[h].pc = "emit"
    /\ hbH' = [hbH EXCEPT ![h] =
                 [pc |-> "return",
                  tx |-> <<[eventType |-> HeartbeatType,
                            value |-> hbPayload.value, count |-> hbPayload.count,
                            processed |-> TRUE]>>]]
    /\ UNCHANGED <<hbPayload, hbLog, hbDeliveries, hbAcked, hbFaults>>

\* The emit throws, or the delivery is cut off.
HbThrows(h) ==
    /\ OnlyHeartbeat
    /\ hbH[h].pc \in {"emit", "return"}
    /\ hbFaults < MaxFaults
    /\ hbFaults' = hbFaults + 1
    /\ hbH' = [hbH EXCEPT ![h] = [hbH[h] EXCEPT !.pc = "throw"]]
    /\ UNCHANGED <<hbPayload, hbLog, hbDeliveries, hbAcked>>

\* The handler returned: the delivery commits and the signal is acknowledged.
HbCommit(h) ==
    /\ OnlyHeartbeat
    /\ hbH[h].pc = "return"
    /\ hbLog' = hbLog \o hbH[h].tx
    /\ hbAcked' = TRUE
    /\ hbH' = [hbH EXCEPT ![h] = HbIdleHandler]
    /\ UNCHANGED <<hbPayload, hbDeliveries, hbFaults>>

\* The handler threw: the delivery is rolled back, the signal is visible again.
HbRollback(h) ==
    /\ OnlyHeartbeat
    /\ hbH[h].pc = "throw"
    /\ hbH' = [hbH EXCEPT ![h] = HbIdleHandler]
    /\ UNCHANGED <<hbPayload, hbLog, hbDeliveries, hbAcked, hbFaults>>

\* ------------------------------------------- Transactional emission
\* A handler that emits some envelopes through emitFromTransaction and then
\* returns or throws (as createIncident does with process.started and
\* incident.created).
EmissionPlans == [envelopes : 1..MaxEnvelopes, throwsAfter : BOOLEAN]

\* utils.ts emitFromTransaction: the statements it issues for an envelope, in
\* order, and the connection each one runs on.
emitFromTransactionMutantLogOnPool(envelope) ==
    <<[on |-> "client", table |-> "queue", envelope |-> envelope],
      [on |-> "pool", table |-> "log", envelope |-> envelope]>>

emitFromTransaction(envelope) ==
    <<[on |-> "client", table |-> "queue", envelope |-> envelope],
      [on |-> "client", table |-> "log", envelope |-> envelope]>>

EmIdleHandler ==
    [pc |-> "idle", delivery |-> 0, envelope |-> 0, statement |-> 0,
     txQueue |-> {}, txLog |-> {}]

EmParked ==
    /\ emPlan = [envelopes |-> 1, throwsAfter |-> FALSE]
    /\ emH = [h \in Handlers |-> EmIdleHandler]
    /\ emQueue = {}
    /\ emLog = {}
    /\ emDeliveries = 0
    /\ emAcked = FALSE
    /\ emFaults = 0
    /\ emRolledBack = {}

EmStart ==
    /\ emPlan \in EmissionPlans
    /\ emH = [h \in Handlers |-> EmIdleHandler]
    /\ emQueue = {}
    /\ emLog = {}
    /\ emDeliveries = 0
    /\ emAcked = FALSE
    /\ emFaults = 0
    /\ emRolledBack = {}

\* The event bus hands the event to a delivery loop, in a fresh transaction.
EmDeliver(h) ==
    /\ OnlyEmission
    /\ emH[h].pc = "idle"
    /\ ~emAcked
    /\ emDeliveries < MaxDeliveries
    /\ emDeliveries' = emDeliveries + 1
    /\ emH' = [emH EXCEPT ![h] =
                 [EmIdleHandler EXCEPT !.pc = "emit", !.delivery = emDeliveries + 1,
                                       !.envelope = 1, !.statement = 1]]
    /\ UNCHANGED <<emPlan, emQueue, emLog, emAcked, emFaults, emRolledBack>>

\* After a statement of emitFromTransaction: its next statement, the next
\* envelope, or the end of the handler (which may throw after emitting).
EmAdvance(hrec) ==
    IF hrec.statement < Len(emitFromTransaction(hrec.envelope))
    THEN [hrec EXCEPT !.statement = @ + 1]
    ELSE IF hrec.envelope < emPlan.envelopes
         THEN [hrec EXCEPT !.envelope = @ + 1, !.statement = 1]
         ELSE [hrec EXCEPT !.pc = IF emPlan.throwsAfter THEN "throw" ELSE "return"]

\* utils.ts:15-18 and :22-35 one statement of emitFromTransaction: on the
\* client it is part of the delivery's transaction; on the pool it would be
\* committed on its own.
EmStatement(h) ==
    /\ OnlyEmission
    /\ emH[h].pc = "emit"
    /\ LET st == emitFromTransaction(emH[h].envelope)[emH[h].statement]
           row == [envelope |-> st.envelope, delivery |-> emH[h].delivery]
           next == EmAdvance(emH[h]) IN
       IF st.on = "client"
       THEN /\ emH' = [emH EXCEPT ![h] =
                         IF st.table = "queue"
                         THEN [next EXCEPT !.txQueue = @ \cup {row}]
                         ELSE [next EXCEPT !.txLog = @ \cup {row}]]
            /\ UNCHANGED <<emQueue, emLog>>
       ELSE /\ emH' = [emH EXCEPT ![h] = next]
            /\ emQueue' = IF st.table = "queue" THEN emQueue \cup {row} ELSE emQueue
            /\ emLog' = IF st.table = "log" THEN emLog \cup {row} ELSE emLog
    /\ UNCHANGED <<emPlan, emDeliveries, emAcked, emFaults, emRolledBack>>

\* A statement of emitFromTransaction rejects: the handler throws.
EmStatementThrows(h) ==
    /\ OnlyEmission
    /\ emH[h].pc = "emit"
    /\ emFaults < MaxFaults
    /\ emFaults' = emFaults + 1
    /\ emH' = [emH EXCEPT ![h] = [emH[h] EXCEPT !.pc = "throw"]]
    /\ UNCHANGED <<emPlan, emQueue, emLog, emDeliveries, emAcked, emRolledBack>>

\* The handler returned: the delivery's transaction commits, with everything
\* written through the client, and the event is acknowledged.
EmCommit(h) ==
    /\ OnlyEmission
    /\ emH[h].pc = "return"
    /\ emQueue' = emQueue \cup emH[h].txQueue
    /\ emLog' = emLog \cup emH[h].txLog
    /\ emAcked' = TRUE
    /\ emH' = [emH EXCEPT ![h] = EmIdleHandler]
    /\ UNCHANGED <<emPlan, emDeliveries, emFaults, emRolledBack>>

\* The handler threw: the delivery's transaction is rolled back.
EmRollback(h) ==
    /\ OnlyEmission
    /\ emH[h].pc = "throw"
    /\ emRolledBack' = emRolledBack \cup {emH[h].delivery}
    /\ emH' = [emH EXCEPT ![h] = EmIdleHandler]
    /\ UNCHANGED <<emPlan, emQueue, emLog, emDeliveries, emAcked, emFaults>>

\* --------------------------------------------------------------- Startup
\* The parsed configuration file.  A field that is absent (or empty, which
\* `!x` treats alike) is NoValue; nodesIsArray and listensToIsArray tell
\* what Array.isArray answers for the field.
NodeIds == {NoValue, "a", "b"}
NodeTypes == {NoValue, "reaction", "custom", "bogus"}
NodeDefinitions == [id : NodeIds, type : NodeTypes, listensToIsArray : BOOLEAN]

PipelineConfigs ==
    [name : {NoValue, "p"}, namespace : {NoValue, "ns"},
     nodesIsArray : BOOLEAN,
     nodes : UNION {[1..n -> NodeDefinitions] : n \in 0..MaxNodes}]

\* pipeline-loader.ts:46
validTypes == {"connector", "enricher", "interest", "reaction", "process", "custom"}

\* pipeline-loader.ts:9-33 loadPipelineConfig on the parsed text: "ok" or
\* the error it throws.
loadPipelineConfig(config) ==
    IF config.name = NoValue \/ config.namespace = NoValue \/ ~config.nodesIsArray
    THEN "Invalid pipeline config"
    ELSE IF \E i \in 1..Len(config.nodes) :
                \/ config.nodes[i].id = NoValue
                \/ config.nodes[i].type = NoValue
                \/ ~config.nodes[i].listensToIsArray
         THEN "Invalid node definition"
         ELSE "ok"

\* pipeline-loader.ts:35-52 validatePipelineConfig: "ok" or the error it throws.
validatePipelineConfigMutantNoDuplicateCheck(config) ==
    IF \E i \in 1..Len(config.nodes) : config.nodes[i].type \notin validTypes
    THEN "Invalid node type"
    ELSE "ok"

validatePipelineConfig(config) ==
    IF \E i \in 1..Len(config.nodes) :
          \E j \in 1..(i - 1) : config.nodes[j].id = config.nodes[i].id
    THEN "Duplicate node ID"
    ELSE IF \E i \in 1..Len(config.nodes) : config.nodes[i].type \notin validTypes
         THEN "Invalid node type"
         ELSE "ok"

StParked ==
    /\ stConfig = [name |-> NoValue, namespace |-> NoValue, nodesIsArray |-> FALSE,
                   nodes |-> <<>>]
    /\ stPc = "off"
    /\ stIdx = 0
    /\ stError = NoValue
    /\ stRegistered = <<>>
    /\ stHandlers = <<>>
    /\ stConsuming = <<>>

StStart ==
    /\ stConfig \in PipelineConfigs
    /\ ~stConfig.nodesIsArray => stConfig.nodes = <<>>
    /\ stPc = "load"
    /\ stIdx = 0
    /\ stError = NoValue
    /\ stRegistered = <<>>
    /\ stHandlers = <<>>
    /\ stConsuming = <<>>

\* part_002:210 const config = await loadPipelineConfig(configPath)
StLoad ==
    /\ OnlyStartup
    /\ stPc = "load"
    /\ IF loadPipelineConfig(stConfig) = "ok"
       THEN stPc' = "validate" /\ UNCHANGED stError
       ELSE stPc' = "failed" /\ stError' = loadPipelineConfig(stConfig)
    /\ UNCHANGED <<stConfig, stIdx, stRegistered, stHandlers, stConsuming>>

\* part_002:211 validatePipelineConfig(config)
StValidate ==
    /\ OnlyStartup
    /\ stPc = "validate"
    /\ IF validatePipelineConfig(stConfig) = "ok"
       THEN stPc' = "connect" /\ UNCHANGED stError
       ELSE stPc' = "failed" /\ stError' = validatePipelineConfig(stConfig)
    /\ UNCHANGED <<stConfig, stIdx, stRegistered, stHandlers, stConsuming>>

\* The executor's three loops over config.nodes (pipeline-executor.ts:39-52):
\* the position after the loop `phase` has dealt with node idx.
StAdvance(phase, idx) ==
    IF idx < Len(stConfig.nodes) THEN [pc |-> phase, idx |-> idx + 1]
    ELSE IF Len(stConfig.nodes) = 0 THEN [pc |-> "started", idx |-> 0]
    ELSE IF phase = "register" THEN [pc |-> "create", idx |-> 1]
    ELSE IF phase = "create" THEN [pc |-> "start", idx |-> 1]
    ELSE [pc |-> "started", idx |-> 0]

\* part_002:219-245 connect to the databases, initialize the schema, create
\* the executor, and enter executor.start().
StConnect ==
    /\ OnlyStartup
    /\ stPc = "connect"
    /\ stPc' = StAdvance("register", 0).pc
    /\ stIdx' = StAdvance("register", 0).idx
    /\ UNCHANGED <<stConfig, stError, stRegistered, stHandlers, stConsuming>>

\* part_002:221 CoreSystem.connect (or a later connection) rejects.
StConnectFails ==
    /\ OnlyStartup
    /\ stPc = "connect"
    /\ stPc' = "failed"
    /\ stError' = "connection failed"
    /\ UNCHANGED <<stConfig, stIdx, stRegistered, stHandlers, stConsuming>>

\* pipeline-executor.ts:82-96 registerNode.
StRegisterNode ==
    /\ OnlyStartup
    /\ stPc = "register"
    /\ stRegistered' = Append(stRegistered, stConfig.nodes[stIdx].id)
    /\ stPc' = StAdvance("register", stIdx).pc
    /\ stIdx' = StAdvance("register", stIdx).idx
    /\ UNCHANGED <<stConfig, stError, stHandlers, stConsuming>>

\* pipeline-executor.ts:98-157 createNodeInstance: the switch on the type
\* throws for "custom" and for a type it does not know; the other instances
\* are created and started, which attaches their handlers.
StCreateNodeInstance ==
    /\ OnlyStartup
    /\ stPc = "create"
    /\ LET type == stConfig.nodes[stIdx].type IN
       IF type \in {"connector", "enricher", "interest", "reaction", "process"}
       THEN /\ stHandlers' = Append(stHandlers, stConfig.nodes[stIdx].id)
            /\ stPc' = StAdvance("create", stIdx).pc
            /\ stIdx' = StAdvance("create", stIdx).idx
            /\ UNCHANGED stError
       ELSE /\ stPc' = "failed"
            /\ stError' = IF type = "custom"
                          THEN "Custom node type not yet implemented"
                          ELSE "Unknown node type"
            /\ UNCHANGED <<stHandlers, stIdx>>
    /\ UNCHANGED <<stConfig, stRegistered, stConsuming>>

\* pipeline-executor.ts:159-175 startNode: the node consumes from the queue.
StStartNode ==
    /\ OnlyStartup
    /\ stPc = "start"
    /\ stConsuming' = Append(stConsuming, stConfig.nodes[stIdx].id)
    /\ stPc' = StAdvance("start", stIdx).pc
    /\ stIdx' = StAdvance("start", stIdx).idx
    /\ UNCHANGED <<stConfig, stError, stRegistered, stHandlers>>

\* ------------------------------------------------- Ownership of tables
\* 001_observability_tables.sql: the durable entities of the pipeline.
Tables ==
    {"core.entity_state", "core.interest_rules", "core.reaction_executions",
     "core.process_instances"}

OwNodeTypes == {"enrich", "interest", "reaction", "process"}

\* The handlers the nodes register, each with the node type it belongs to.
OwHandlers ==
    {<<"enrich", "handleWebSnapshot">>, <<"enrich", "handlePeriodicHeartbeat">>,
     <<"interest", "handleEnrichedEvent">>, <<"interest", "skipSignal">>,
     <<"reaction", "handleDirectEvent">>, <<"reaction", "handleInterestMatch">>,
     <<"process", "handleReactionExecuted">>, <<"process", "handleInterestMatch">>,
     <<"process", "handleEnrichedEvent">>}

Select(table) == [table |-> table, write |-> FALSE]
Write(table) == [table |-> table, write |-> TRUE]

\* The pipelineDb.query statements of a handler's code, in program order,
\* those of the functions it calls included.
StatementsOfMutantInterestDisablesRule(handler) ==
    IF handler = <<"interest", "handleEnrichedEvent">>
    THEN <<Select("core.interest_rules"), Write("core.interest_rules")>>
    ELSE <<>>

StatementsOf(handler) ==
    IF handler = <<"enrich", "handleWebSnapshot">>
    THEN <<Select("core.entity_state"), Write("core.entity_state")>>
    ELSE IF handler = <<"interest", "handleEnrichedEvent">>
    THEN <<Select("core.interest_rules")>>
    ELSE IF handler[1] = "reaction"
    THEN <<Select("core.reaction_executions"), Write("core.reaction_executions"),
           Write("core.reaction_executions"), Write("core.reaction_executions")>>
    ELSE IF handler = <<"process", "handleReactionExecuted">>
    THEN <<Select("core.process_instances"), Write("core.process_instances"),
           Write("core.process_instances")>>
    ELSE IF handler[1] = "process"
    THEN <<Write("core.process_instances")>>
    ELSE <<>>

OwParked ==
    /\ owRunning = <<"none", "none">>
    /\ owPos = 0
    /\ owRead = [t \in Tables |-> {}]
    /\ owWrote = [t \in Tables |-> {}]

\* The event bus hands an event to one of the registered handlers.
OwInvoke ==
    /\ OnlyOwnership
    /\ owRunning = <<"none", "none">>
    /\ \E handler \in OwHandlers : owRunning' = handler
    /\ owPos' = 1
    /\ UNCHANGED <<owRead, owWrote>>

\* The running handler issues its next statement.
OwStatement ==
    /\ OnlyOwnership
    /\ owRunning \in OwHandlers
    /\ owPos <= Len(StatementsOf(owRunning))
    /\ LET st == StatementsOf(owRunning)[owPos] IN
       IF st.write
       THEN /\ owWrote' = [owWrote EXCEPT ![st.table] = @ \cup {owRunning[1]}]
            /\ UNCHANGED owRead
       ELSE /\ owRead' = [owRead EXCEPT ![st.table] = @ \cup {owRunning[1]}]
            /\ UNCHANGED owWrote
    /\ owPos' = owPos + 1
    /\ UNCHANGED owRunning

\* The running handler's control flow passes its next statement by (a branch
\* not taken, a continue, a catch block not entered).
OwPassBy ==
    /\ OnlyOwnership
    /\ owRunning \in OwHandlers
    /\ owPos <= Len(StatementsOf(owRunning))
    /\ owPos' = owPos + 1
    /\ UNCHANGED <<owRunning, owRead, owWrote>>

\* The running handler returns or throws.
OwReturn ==
    /\ OnlyOwnership
    /\ owRunning \in OwHandlers
    /\ owRunning' = <<"none", "none">>
    /\ owPos' = 0
    /\ UNCHANGED <<owRead, owWrote>>

\* ----------------------------------------- Process-type classification
\* The words event type strings are written with.  No word is the beginning
\* of another, so a string starts with a prefix exactly when its words start
\* with the prefix's words.
EventTypeWords == {"interest", ".", "match", "enriched", "periodic", "heartbeat"}

EventTypeStrings == UNION {[1..n -> EventTypeWords] : n \in 0..MaxWords}

ClParked ==
    /\ clEventType = <<>>
    /\ clResults = <<>>

ClStart ==
    /\ clEventType \in EventTypeStrings
    /\ clResults = <<>>

\* processNode.ts:237-249 one call of determineProcessType on the event.
ClClassify ==
    /\ OnlyClassification
    /\ Len(clResults) < 2
    /\ clResults' = Append(clResults, determineProcessType(clEventType))
    /\ UNCHANGED clEventType

\* ----------------------------------------------------- Pipeline executor
\* The node definitions the executor is constructed with: type, the subtype
\* of config, whether config.actions holds an action, and listensTo.  Ids are
\* distinct (validatePipelineConfig), so a node is named by its place in
\* config.nodes.
ExNodeKinds ==
    {[type |-> "connector", subtype |-> "periodic", hasActions |-> FALSE,
      listensTo |-> {}],
     [type |-> "connector", subtype |-> "web", hasActions |-> FALSE,
      listensTo |-> {}],
     [type |-> "enricher", subtype |-> NoValue, hasActions |-> FALSE,
      listensTo |-> {"signal.web.snapshot"}],
     [type |-> "enricher", subtype |-> "web", hasActions |-> FALSE,
      listensTo |-> {"signal.web.snapshot", "signal.periodic.heartbeat"}],
     [type |-> "enricher", subtype |-> "metric", hasActions |-> FALSE,
      listensTo |-> {"signal.metric.raw"}],
     [type |-> "interest", subtype |-> NoValue, hasActions |-> FALSE,
      listensTo |-> {"enriched.web.content_delta"}],
     [type |-> "interest", subtype |-> NoValue, hasActions |-> FALSE,
      listensTo |-> {"enriched.stream.window"}],
     [type |-> "reaction", subtype |-> NoValue, hasActions |-> TRUE,
      listensTo |-> {"interest.match", "enriched.periodic.heartbeat"}],
     [type |-> "reaction", subtype |-> NoValue, hasActions |-> FALSE,
      listensTo |-> {"interest.match"}],
     [type |-> "process", subtype |-> NoValue, hasActions |-> FALSE,
      listensTo |-> {"reaction.executed", "interest.match"}],
     [type |-> "custom", subtype |-> NoValue, hasActions |-> FALSE,
      listensTo |-> {}],
     [type |-> "bogus", subtype |-> NoValue, hasActions |-> FALSE,
      listensTo |-> {}]}

ExConfigs == UNION {[1..n -> ExNodeKinds] : n \in 1..MaxNodes}

\* pipeline-executor.ts:109 connectorConfig.subtype === "periodic"
IsPeriodicConnector(nodeDef) ==
    nodeDef.type = "connector" /\ nodeDef.subtype = "periodic"

\* The event types the instance's start() calls node.onEvent for
\* (part_000:22-31, pipeline-executor.ts:200-227, part_001:33-51,
\* processNode.ts:22-40); createEnrichNode (part_000:111-121) returns null
\* unless the subtype, "web" when absent (pipeline-executor.ts:121), is
\* "web", and the connectors register no handler.
HandlersOfMutantEnricherWebOnly(nodeDef) ==
    IF nodeDef.type = "enricher"
    THEN IF nodeDef.subtype \in {NoValue, "web"} THEN {"signal.web.snapshot"} ELSE {}
    ELSE IF nodeDef.type = "interest"
    THEN {"enriched.web.content_delta", "enriched.metric.aggregated",
          "enriched.periodic.heartbeat", "signal.periodic.heartbeat"}
    ELSE IF nodeDef.type = "reaction"
    THEN {"interest.match"} \cup
         (IF nodeDef.hasActions THEN nodeDef.listensTo \ {"interest.match"} ELSE {})
    ELSE IF nodeDef.type = "process"
    THEN {"reaction.executed", "interest.match", "enriched.periodic.heartbeat"}
    ELSE {}

HandlersOf(nodeDef) ==
    IF nodeDef.type = "enricher"
    THEN IF nodeDef.subtype \in {NoValue, "web"}
         THEN {"signal.web.snapshot", "signal.periodic.heartbeat"}
         ELSE {}
    ELSE IF nodeDef.type = "interest"
    THEN {"enriched.web.content_delta", "enriched.metric.aggregated",
          "enriched.periodic.heartbeat", "signal.periodic.heartbeat"}
    ELSE IF nodeDef.type = "reaction"
    THEN {"interest.match"} \cup
         (IF nodeDef.hasActions THEN nodeDef.listensTo \ {"interest.match"} ELSE {})
    ELSE IF nodeDef.type = "process"
    THEN {"reaction.executed", "interest.match", "enriched.periodic.heartbeat"}
    ELSE {}

\* What createNodeInstance stores in nodeInstances: an object, or the null
\* createEnrichNode returned.
InstanceOf(nodeDef) ==
    IF nodeDef.type = "enricher" /\ nodeDef.subtype \notin {NoValue, "web"}
    THEN "null" ELSE "object"

\* setInterval's answer: a timer id that no active timer has.
NewTimer(timers) ==
    CHOOSE t \in 1..(Cardinality(timers) + 1) : t \notin timers

\* connectorNode.ts:128-139 PeriodicConnectorNode.start on the connector
\* state c = [intervalId, timers, emitted]: emit at once, then set an
\* interval timer and keep its id in intervalId, whatever intervalId held.
PeriodicStart(c) ==
    [intervalId |-> NewTimer(c.timers),
     timers |-> c.timers \cup {NewTimer(c.timers)},
     emitted |-> c.emitted + 1]

\* connectorNode.ts:144-150 PeriodicConnectorNode.stop: clear the timer
\* intervalId names, if it names one.
PeriodicStop(c) ==
    IF c.intervalId # 0
    THEN [intervalId |-> 0, timers |-> c.timers \ {c.intervalId},
          emitted |-> c.emitted]
    ELSE c

ExConnector(i) ==
    [intervalId |-> exIntervalId[i], timers |-> exTimers[i], emitted |-> exEmitted]

ExParked ==
    /\ exConfig = <<>>
    /\ exPc = "off"
    /\ exIdx = 0
    /\ exError = NoValue
    /\ exNodes = {}
    /\ exInstances = <<>>
    /\ exConnectors = {}
    /\ exHandlers = <<>>
    /\ exConsuming = {}
    /\ exIntervalId = <<>>
    /\ exTimers = <<>>
    /\ exEmitted = 0

\* pipeline-executor.ts:23-32 the executor as constructed, start() entered.
ExStart ==
    /\ exConfig \in ExConfigs
    /\ exPc = "register"
    /\ exIdx = 1
    /\ exError = NoValue
    /\ exNodes = {}
    /\ exInstances = [i \in 1..Len(exConfig) |-> NoValue]
    /\ exConnectors = {}
    /\ exHandlers = [i \in 1..Len(exConfig) |-> {}]
    /\ exConsuming = {}
    /\ exIntervalId = [i \in 1..Len(exConfig) |-> 0]
    /\ exTimers = [i \in 1..Len(exConfig) |-> {}]
    /\ exEmitted = 0

\* pipeline-executor.ts:39-52 the three loops of start(): where it stands
\* after the loop `phase` has dealt with node idx.
ExAdvance(phase, idx) ==
    IF idx < Len(exConfig) THEN [pc |-> phase, idx |-> idx + 1]
    ELSE IF phase = "register" THEN [pc |-> "create", idx |-> 1]
    ELSE IF phase = "create" THEN [pc |-> "start", idx |-> 1]
    ELSE [pc |-> "started", idx |-> 0]

\* pipeline-executor.ts:82-96 registerNode.
ExRegisterNode ==
    /\ OnlyExecutor
    /\ exPc = "register"
    /\ exNodes' = exNodes \cup {exIdx}
    /\ exPc' = ExAdvance("register", exIdx).pc
    /\ exIdx' = ExAdvance("register", exIdx).idx
    /\ UNCHANGED <<exConfig, exError, exInstances, exConnectors, exHandlers,
                   exConsuming, exIntervalId, exTimers, exEmitted>>

\* pipeline-executor.ts:98-157 createNodeInstance: the switch builds the
\* instance (a periodic connector also goes into this.connectors) or throws
\* for "custom" and for a type it does not know; then any instance that has
\* a start method is started: the node classes register their handlers, and
\* PeriodicConnectorNode, which has one too, emits and sets its timer.
ExCreateNodeInstance ==
    /\ OnlyExecutor
    /\ exPc = "create"
    /\ LET nodeDef == exConfig[exIdx]
           started == PeriodicStart(ExConnector(exIdx)) IN
       IF nodeDef.type \in {"connector", "enricher", "interest", "reaction", "process"}
       THEN /\ exInstances' = [exInstances EXCEPT ![exIdx] = InstanceOf(nodeDef)]
            /\ exHandlers' = [exHandlers EXCEPT ![exIdx] = HandlersOf(nodeDef)]
            /\ IF IsPeriodicConnector(nodeDef)
               THEN /\ exConnectors' = exConnectors \cup {exIdx}
                    /\ exIntervalId' = [exIntervalId EXCEPT ![exIdx] = started.intervalId]
                    /\ exTimers' = [exTimers EXCEPT ![exIdx] = started.timers]
                    /\ exEmitted' = started.emitted
               ELSE UNCHANGED <<exConnectors, exIntervalId, exTimers, exEmitted>>
            /\ exPc' = ExAdvance("create", exIdx).pc
            /\ exIdx' = ExAdvance("create", exIdx).idx
            /\ UNCHANGED exError
       ELSE /\ exPc' = "rejected"
            /\ exError' = IF nodeDef.type = "custom"
                          THEN "Custom node type not yet implemented"
                          ELSE "Unknown node type"
            /\ UNCHANGED <<exInstances, exHandlers, exConnectors, exIntervalId,
                           exTimers, exEmitted, exIdx>>
    /\ UNCHANGED <<exConfig, exNodes, exConsuming>>

\* pipeline-executor.ts:159-175 startNode: the CoreNode begins consuming
\* from the queue, and a node found in this.connectors is started.
ExStartNode ==
    /\ OnlyExecutor
    /\ exPc = "start"
    /\ exConsuming' = exConsuming \cup {exIdx}
    /\ LET started == PeriodicStart(ExConnector(exIdx)) IN
       IF exIdx \in exConnectors
       THEN /\ exIntervalId' = [exIntervalId EXCEPT ![exIdx] = started.intervalId]
            /\ exTimers' = [exTimers EXCEPT ![exIdx] = started.timers]
            /\ exEmitted' = started.emitted
       ELSE UNCHANGED <<exIntervalId, exTimers, exEmitted>>
    /\ exPc' = ExAdvance("start", exIdx).pc
    /\ exIdx' = ExAdvance("start", exIdx).idx
    /\ UNCHANGED <<exConfig, exError, exNodes, exInstances, exConnectors, exHandlers>>

\* connectorNode.ts:136-138, 152-160 an active interval timer of connector i
\* fires: emitSignal.
ExTimerFires(i) ==
    /\ OnlyExecutor
    /\ exTimers[i] # {}
    /\ exEmitted < MaxEmitted
    /\ exEmitted' = exEmitted + 1
    /\ UNCHANGED <<exConfig, exPc, exIdx, exError, exNodes, exInstances,
                   exConnectors, exHandlers, exConsuming, exIntervalId, exTimers>>

\* pipeline-executor.ts:57-76 stop(), as part_002:253-260 calls it once the
\* pipeline runs: every connector in this.connectors is stopped, every node
\* stops consuming, and the three maps are cleared.
ExStop ==
    /\ OnlyExecutor
    /\ exPc = "started"
    /\ exIntervalId' = [i \in 1..Len(exConfig) |->
                          IF i \in exConnectors
                          THEN PeriodicStop(ExConnector(i)).intervalId
                          ELSE exIntervalId[i]]
    /\ exTimers' = [i \in 1..Len(exConfig) |->
                       IF i \in exConnectors
                       THEN PeriodicStop(ExConnector(i)).timers
                       ELSE exTimers[i]]
    /\ exConnectors' = {}
    /\ exConsuming' = {}
    /\ exNodes' = {}
    /\ exInstances' = [i \in 1..Len(exConfig) |-> NoValue]
    /\ exPc' = "stopped"
    /\ UNCHANGED <<exConfig, exIdx, exError, exHandlers, exEmitted>>

\* ------------------------------------------------------------ Dedupe key
\* Rule ids and event types as strings of characters; rule_id is free text
\* (001_observability_tables.sql:21-32) and so is an event type.
DkChars == {"0", "|"}
DkStrings == UNION {[1..n -> DkChars] : n \in 1..MaxChars}

DkPayloads ==
    {[source |-> SourceUrl, hash |-> "h1", previousHash |-> NoValue],
     [source |-> SourceUrl, hash |-> "h2", previousHash |-> "h1"]}

\* What an envelope carries besides its type and payload: the first
\* delivery's, and another producer's at another time.
DkFirstDelivery == [emittedAt |-> "t1", producerNodeId |-> "n1"]
DkDeliveries == {DkFirstDelivery, [emittedAt |-> "t2", producerNodeId |-> "n2"]}

\* The envelope of the event the key is made for.
DkEnvelopes ==
    {[eventType |-> e, payload |-> p, emittedAt |-> d.emittedAt,
      producerNodeId |-> d.producerNodeId] :
        e \in DkStrings, p \in DkPayloads, d \in DkDeliveries}

DkArguments ==
    [namespace : {<<Namespace>>}, ruleId : DkStrings, actionIndex : 0..1,
     event : DkEnvelopes]

DkParked ==
    /\ dkCalls = <<>>
    /\ dkKeys = <<>>

\* The first call: action 0 of some rule, for some event with the first
\* payload, as first delivered.
DkStart ==
    /\ dkCalls \in {<<a>> : a \in {x \in DkArguments :
                                     /\ x.actionIndex = 0
                                     /\ x.event.payload.hash = "h1"
                                     /\ x.event.emittedAt = DkFirstDelivery.emittedAt
                                     /\ x.event.producerNodeId =
                                            DkFirstDelivery.producerNodeId}}
    /\ dkKeys = <<[joined |-> Join(KeyParts(dkCalls[1].namespace, dkCalls[1].ruleId,
                                            dkCalls[1].actionIndex, dkCalls[1].event)),
                   key |-> generateDedupeKey(dkCalls[1].namespace, dkCalls[1].ruleId,
                                             dkCalls[1].actionIndex, dkCalls[1].event)]>>

\* part_001:60-65, 161-166 a further call of generateDedupeKey.
DkCall(a) ==
    /\ Len(dkCalls) < 2
    /\ OnlyDedupeKey
    /\ dkCalls' = Append(dkCalls, a)
    /\ dkKeys' = Append(dkKeys,
                    [joined |-> Join(KeyParts(a.namespace, a.ruleId, a.actionIndex,
                                              a.event)),
                     key |-> generateDedupeKey(a.namespace, a.ruleId, a.actionIndex,
                                               a.event)])

\* ----------------------------------------- Deferral of the heartbeat signal
\* The two nodes of the pipeline that register a handler for
\* signal.periodic.heartbeat, each with one delivery loop.
DfNodes == {"interest", "enricher"}

DfNodeDef(n) ==
    IF n = "interest"
    THEN [type |-> "interest", subtype |-> NoValue, hasActions |-> FALSE,
          listensTo |-> {"enriched.web.content_delta"}]
    ELSE [type |-> "enricher", subtype |-> "web", hasActions |-> FALSE,
          listensTo |-> {"signal.web.snapshot", "signal.periodic.heartbeat"}]

DfIdleHandler == [pc |-> "idle", msg |-> 0, tx |-> <<>>]

\* connectorNode.ts:152-158 emitSignal: the n-th signal carries value true
\* and count n.
DfSignalLists ==
    {[m \in 1..n |-> [value |-> TRUE, count |-> m]] : n \in 1..MaxHeartbeats}

DfParked ==
    /\ dfSignals = <<>>
    /\ dfStatus = <<>>
    /\ dfH = [n \in DfNodes |-> DfIdleHandler]
    /\ dfLog = <<>>
    /\ dfSkips = <<>>
    /\ dfFaults = 0

\* connectorNode.ts:152-160 the connector has emitted the signals.
DfStart ==
    /\ dfSignals \in DfSignalLists
    /\ dfStatus = [m \in 1..Len(dfSignals) |-> "visible"]
    /\ dfH = [n \in DfNodes |-> DfIdleHandler]
    /\ dfLog = <<>>
    /\ dfSkips = [m \in 1..Len(dfSignals) |-> 0]
    /\ dfFaults = 0

\* The event bus hands a visible message to a node that has a handler for
\* its type; the message is invisible to the other node meanwhile.  The
\* Interest Filter's handler is the one that skips (pipeline-executor.ts:
\* 219-226), the enricher's is handlePeriodicHeartbeat (part_000:28-30).
DfDeliver(n, m) ==
    /\ m \in 1..Len(dfSignals)
    /\ dfStatus[m] = "visible"
    /\ dfH[n].pc = "idle"
    /\ SignalHeartbeatType \in HandlersOf(DfNodeDef(n))
    /\ OnlyDeferral
    /\ dfStatus' = [dfStatus EXCEPT ![m] = "taken"]
    /\ dfH' = [dfH EXCEPT ![n] =
                 [DfIdleHandler EXCEPT !.msg = m,
                     !.pc = IF n = "interest" THEN HandlerFor(SignalHeartbeatType)
                            ELSE "emit"]]
    /\ UNCHANGED <<dfSignals, dfLog, dfSkips, dfFaults>>

\* pipeline-executor.ts:219-226 the Interest Filter throws the error named
\* SkipAcknowledgmentError; the event bus makes the message visible again.
DfSkip ==
    /\ dfH["interest"].pc = "skip"
    /\ OnlyDeferral
    /\ dfStatus' = [dfStatus EXCEPT ![dfH["interest"].msg] = "visible"]
    /\ dfSkips' = [dfSkips EXCEPT ![dfH["interest"].msg] =
                      IF @ < MaxSkips THEN @ + 1 ELSE @]
    /\ dfH' = [dfH EXCEPT !["interest"] = DfIdleHandler]
    /\ UNCHANGED <<dfSignals, dfLog, dfFaults>>

\* part_000:82-104 handlePeriodicHeartbeat emits enriched.periodic.heartbeat
\* in the delivery's transaction.
DfEmit ==
    /\ dfH["enricher"].pc = "emit"
    /\ OnlyDeferral
    /\ dfH' = [dfH EXCEPT !["enricher"] =
                 [dfH["enricher"] EXCEPT !.pc = "return",
                     !.tx = <<[eventType |-> HeartbeatType,
                               value |-> dfSignals[dfH["enricher"].msg].value,
                               count |-> dfSignals[dfH["enricher"].msg].count,
                               processed |-> TRUE]>>]]
    /\ UNCHANGED <<dfSignals, dfStatus, dfLog, dfSkips, dfFaults>>

\* The emit throws, or the delivery is cut off: the delivery is rolled back
\* and the message is visible again.
DfThrows ==
    /\ dfH["enricher"].pc \in {"emit", "return"}
    /\ dfFaults < MaxFaults
    /\ OnlyDeferral
    /\ dfFaults' = dfFaults + 1
    /\ dfStatus' = [dfStatus EXCEPT ![dfH["enricher"].msg] = "visible"]
    /\ dfH' = [dfH EXCEPT !["enricher"] = DfIdleHandler]
    /\ UNCHANGED <<dfSignals, dfLog, dfSkips>>

\* The enricher's handler returned: the delivery commits and the message is
\* acknowledged.
DfCommit ==
    /\ dfH["enricher"].pc = "return"
    /\ OnlyDeferral
    /\ dfLog' = dfLog \o dfH["enricher"].tx
    /\ dfStatus' = [dfStatus EXCEPT ![dfH["enricher"].msg] = "acked"]
    /\ dfH' = [dfH EXCEPT !["enricher"] = DfIdleHandler]
    /\ UNCHANGED <<dfSignals, dfSkips, dfFaults>>

\* ------------------------------------------------- Pipeline, end to end
\* One source watched over time: each signal is handled by the Enrich/Diff
\* node, each enriched event by the Interest Filter, each interest.match by
\* the Reaction Executor, every event delivered once and handled to the end
\* before the next one of its kind.

\* The bodies the page shows: "a", " a\n" (the same content once
\* normalized) and "><".
PageBodies == {<<"a">>, <<" ", "a", "NL">>, <<">", "<">>}

ContentHistories == UNION {[1..n -> PageBodies] : n \in 1..MaxSignals}

\* The one rule of core.interest_rules in this pipeline.
PipelineRule ==
    [namespace |-> Namespace, rule_id |-> "rule-1", name |-> "n1", event_type |-> TriggerEventType,
     enabled |-> TRUE, condition_expr |-> "true", actions |-> <<"echo">>]

TgParked ==
    /\ tgSignals = <<>>
    /\ tgSnapshot = NoValue
    /\ tgEnriched = <<>>
    /\ tgMatches = <<>>
    /\ tgRows = {}
    /\ tgRan = <<>>
    /\ tgPos = [signals |-> 0, enriched |-> 0, matches |-> 0]

TgStart ==
    /\ tgSignals \in ContentHistories
    /\ tgSnapshot = NoValue
    /\ tgEnriched = <<>>
    /\ tgMatches = <<>>
    /\ tgRows = {}
    /\ tgRan = <<>>
    /\ tgPos = [signals |-> 0, enriched |-> 0, matches |-> 0]

\* part_000:33-80 handleWebSnapshot on the next signal: the envelope carries
\* the payload {source, summary, hash, previousHash} and its own emittedAt.
TgEnrich ==
    /\ OnlyPipeline
    /\ tgPos.signals < Len(tgSignals)
    /\ LET hash == HashOf(tgSignals[tgPos.signals + 1])
           prev == tgSnapshot IN
       /\ tgSnapshot' = hash
       /\ tgEnriched' =
            IF Changed(prev, hash)
            THEN Append(tgEnriched,
                   [eventType |-> TriggerEventType,
                    payload |-> [source |-> SourceUrl, hash |-> hash,
                                 previousHash |-> prev],
                    emittedAt |-> tgPos.signals + 1])
            ELSE tgEnriched
    /\ tgPos' = [tgPos EXCEPT !.signals = @ + 1]
    /\ UNCHANGED <<tgSignals, tgMatches, tgRows, tgRan>>

\* pipeline-executor.ts:250-281 the interest.match events of the rules that match.
RECURSIVE MatchesOf(_, _)
MatchesOf(rules, event) ==
    IF rules = <<>> THEN <<>>
    ELSE (IF evalCondition(Head(rules).condition_expr)
          THEN <<[eventType |-> "interest.match", ruleId |-> Head(rules).rule_id,
                  actions |-> Head(rules).actions, event |-> event]>>
          ELSE <<>>) \o MatchesOf(Tail(rules), event)

\* pipeline-executor.ts:229-283 handleEnrichedEvent on the next enriched event.
TgFilter ==
    /\ OnlyPipeline
    /\ tgPos.enriched < Len(tgEnriched)
    /\ LET event == tgEnriched[tgPos.enriched + 1]
           found == MatchesOf(SelectRows(<<PipelineRule>>, Namespace, event.eventType), event) IN
       /\ tgMatches' = tgMatches \o found
       /\ tgRan' = tgRan \o [k \in 1..Len(found) |-> 0]
    /\ tgPos' = [tgPos EXCEPT !.enriched = @ + 1]
    /\ UNCHANGED <<tgSignals, tgSnapshot, tgEnriched, tgRows>>

\* part_001:152-251 handleInterestMatch on the next interest.match event,
\* whose rule has one action: the dedupe key of the matched event, the
\* existence check, and for a new key the row, the adapter and the status.
TgReact ==
    /\ OnlyPipeline
    /\ tgPos.matches < Len(tgMatches)
    /\ LET m == tgMatches[tgPos.matches + 1]
           key == generateDedupeKey(<<Namespace>>, <<m.ruleId>>, 0,
                                    [eventType |-> <<m.event.eventType>>,
                                     payload |-> m.event.payload]) IN
       IF \E r \in tgRows : r.dedupe_key = key
       THEN UNCHANGED <<tgRows, tgRan>>
       ELSE /\ tgRows' = tgRows \cup
                    {[dedupe_key |-> key, rule_id |-> m.ruleId, action_index |-> 0,
                      status |-> executeAction(m.actions[1]).status]}
            /\ tgRan' = [tgRan EXCEPT ![tgPos.matches + 1] = @ + 1]
    /\ tgPos' = [tgPos EXCEPT !.matches = @ + 1]
    /\ UNCHANGED <<tgSignals, tgSnapshot, tgEnriched, tgMatches>>

\* -------------------------------------------------------- specifications
\* The Reaction Executor handling one triggering event.
RxInit ==
    /\ RxStart
    /\ EnParked
    /\ InParked
    /\ PrParked
    /\ TgParked
    /\ HbParked
    /\ EmParked
    /\ StParked
    /\ OwParked
    /\ ClParked
    /\ ExParked
    /\ DkParked
    /\ DfParked

RxNext ==
    \E h \in Handlers :
        \/ RxDeliver(h)
        \/ RxSelect(h)
        \/ RxInsert(h)
        \/ RxExecute(h)
        \/ RxUpdate(h)
        \/ RxEmit(h)
        \/ RxQueryThrows(h)
        \/ RxCatchUpsert(h)
        \/ RxCatchEmit(h)
        \/ RxCatchThrows(h)
        \/ RxCommit(h)
        \/ RxRollback(h)
        \/ RxCrash(h)

SpecReaction == RxInit /\ [][RxNext]_vars

\* The Enrich/Diff node handling the signals of one source.
EnInit ==
    /\ EnStart
    /\ RxParked
    /\ InParked
    /\ PrParked
    /\ TgParked
    /\ HbParked
    /\ EmParked
    /\ StParked
    /\ OwParked
    /\ ClParked
    /\ ExParked
    /\ DkParked
    /\ DfParked

EnNextNoFault ==
    \E h \in Handlers :
        \/ \E m \in 1..Len(enSignals) : EnDeliver(h, m)
        \/ EnSelect(h)
        \/ EnUpsert(h)
        \/ EnEmit(h)
        \/ EnCommit(h)

EnNext ==
    \E h \in Handlers :
        \/ \E m \in 1..Len(enSignals) : EnDeliver(h, m)
        \/ EnSelect(h)
        \/ EnUpsert(h)
        \/ EnEmit(h)
        \/ EnCommit(h)
        \/ EnThrows(h)
        \/ EnRollback(h)

SpecEnrich == EnInit /\ [][EnNext]_vars

\* The same, with an event bus and stores that never fail.
SpecEnrichNoFault == EnInit /\ [][EnNextNoFault]_vars

\* The Interest Filter handling one enriched event.
InInit ==
    /\ InStart
    /\ RxParked
    /\ EnParked
    /\ PrParked
    /\ TgParked
    /\ HbParked
    /\ EmParked
    /\ StParked
    /\ OwParked
    /\ ClParked
    /\ ExParked
    /\ DkParked
    /\ DfParked

InNext ==
    \/ InDeliver
    \/ InSelect
    \/ InEvaluate
    \/ InEmit
    \/ InEmitThrows
    \/ InSelectThrows
    \/ InSkip
    \/ InCommit
    \/ InRollback

SpecInterest == InInit /\ [][InNext]_vars

\* The Process node handling the events delivered to it.
PrInit ==
    /\ PrStart
    /\ RxParked
    /\ EnParked
    /\ InParked
    /\ TgParked
    /\ HbParked
    /\ EmParked
    /\ StParked
    /\ OwParked
    /\ ClParked
    /\ ExParked
    /\ DkParked
    /\ DfParked

PrNext ==
    \E h \in Handlers :
        \/ \E m \in 1..Len(prEvents) : PrDeliver(h, m)
        \/ PrSelect(h)
        \/ PrAppend(h)
        \/ PrEmitUpdated(h)
        \/ PrInsertIncident(h)
        \/ PrInsertProcess(h)
        \/ PrEmitStarted(h)
        \/ PrEmitIncidentCreated(h)
        \/ PrThrows(h)
        \/ PrCommit(h)
        \/ PrRollback(h)

SpecProcess == PrInit /\ [][PrNext]_vars


\* The Enrich/Diff node handling one heartbeat signal.
HbInit ==
    /\ HbStart
    /\ RxParked
    /\ EnParked
    /\ InParked
    /\ PrParked
    /\ TgParked
    /\ EmParked
    /\ StParked
    /\ OwParked
    /\ ClParked
    /\ ExParked
    /\ DkParked
    /\ DfParked

HbNext ==
    \E h \in Handlers :
        \/ HbDeliver(h)
        \/ HbEmit(h)
        \/ HbThrows(h)
        \/ HbCommit(h)
        \/ HbRollback(h)

SpecHeartbeat == HbInit /\ [][HbNext]_vars

\* A handler emitting through emitFromTransaction.
EmInit ==
    /\ EmStart
    /\ RxParked
    /\ EnParked
    /\ InParked
    /\ PrParked
    /\ TgParked
    /\ HbParked
    /\ StParked
    /\ OwParked
    /\ ClParked
    /\ ExParked
    /\ DkParked
    /\ DfParked

EmNext ==
    \E h \in Handlers :
        \/ EmDeliver(h)
        \/ EmStatement(h)
        \/ EmStatementThrows(h)
        \/ EmCommit(h)
        \/ EmRollback(h)

SpecEmission == EmInit /\ [][EmNext]_vars

\* main starting a pipeline from a configuration file.
StInit ==
    /\ StStart
    /\ RxParked
    /\ EnParked
    /\ InParked
    /\ PrParked
    /\ TgParked
    /\ HbParked
    /\ EmParked
    /\ OwParked
    /\ ClParked
    /\ ExParked
    /\ DkParked
    /\ DfParked

StNext ==
    \/ StLoad
    \/ StValidate
    \/ StConnect
    \/ StConnectFails
    \/ StRegisterNode
    \/ StCreateNodeInstance
    \/ StStartNode

SpecStartup == StInit /\ [][StNext]_vars

\* The handlers of all node types issuing their statements.
OwInit ==
    /\ OwParked
    /\ ClParked
    /\ RxParked
    /\ EnParked
    /\ InParked
    /\ PrParked
    /\ TgParked
    /\ HbParked
    /\ EmParked
    /\ StParked
    /\ ExParked
    /\ DkParked
    /\ DfParked

OwNext ==
    \/ OwInvoke
    \/ OwStatement
    \/ OwPassBy
    \/ OwReturn

SpecOwnership == OwInit /\ [][OwNext]_vars

\* determineProcessType called on an event type.
ClInit ==
    /\ ClStart
    /\ RxParked
    /\ EnParked
    /\ InParked
    /\ PrParked
    /\ TgParked
    /\ HbParked
    /\ EmParked
    /\ StParked
    /\ OwParked
    /\ ExParked
    /\ DkParked
    /\ DfParked

ClNext == ClClassify

SpecClassification == ClInit /\ [][ClNext]_vars

\* The executor started on a configuration, and stopped.
ExInit ==
    /\ ExStart
    /\ RxParked
    /\ EnParked
    /\ InParked
    /\ PrParked
    /\ TgParked
    /\ HbParked
    /\ EmParked
    /\ StParked
    /\ OwParked
    /\ ClParked
    /\ DkParked
    /\ DfParked

ExNext ==
    \/ ExRegisterNode
    \/ ExCreateNodeInstance
    \/ ExStartNode
    \/ \E i \in 1..Len(exConfig) : ExTimerFires(i)
    \/ ExStop

SpecExecutor == ExInit /\ [][ExNext]_vars

\* generateDedupeKey called twice.
DkInit ==
    /\ DkStart
    /\ RxParked
    /\ EnParked
    /\ InParked
    /\ PrParked
    /\ TgParked
    /\ HbParked
    /\ EmParked
    /\ StParked
    /\ OwParked
    /\ ClParked
    /\ ExParked
    /\ DfParked

DkNext == Len(dkCalls) < 2 /\ \E a \in DkArguments : DkCall(a)

SpecDedupeKey == DkInit /\ [][DkNext]_vars

\* The heartbeat signals on the queue the Interest Filter and the enricher
\* consume from.
DfInit ==
    /\ DfStart
    /\ RxParked
    /\ EnParked
    /\ InParked
    /\ PrParked
    /\ TgParked
    /\ HbParked
    /\ EmParked
    /\ StParked
    /\ OwParked
    /\ ClParked
    /\ ExParked
    /\ DkParked

\* The steps a handler that was handed a message takes by itself.
DfHandlerStep ==
    \/ DfSkip
    \/ DfEmit
    \/ DfCommit

DfNext ==
    \/ \E n \in DfNodes : \E m \in 1..Len(dfSignals) : DfDeliver(n, m)
    \/ DfHandlerStep
    \/ DfThrows

SpecDeferral == DfInit /\ [][DfNext]_vars

\* The same under fair delivery: a handler that was handed a message goes
\* on to its end, and a message that is visible again and again is in the
\* end handed to the enricher.
SpecDeferralFair ==
    /\ SpecDeferral
    /\ WF_vars(DfSkip)
    /\ WF_vars(DfEmit)
    /\ WF_vars(DfCommit)
    /\ \A m \in 1..MaxHeartbeats : SF_vars(DfDeliver("enricher", m))

\* The pipeline watching one source.
TgInit ==
    /\ TgStart
    /\ RxParked
    /\ EnParked
    /\ InParked
    /\ PrParked
    /\ HbParked
    /\ EmParked
    /\ StParked
    /\ OwParked
    /\ ClParked
    /\ ExParked
    /\ DkParked
    /\ DfParked

TgNext ==
    \/ TgEnrich
    \/ TgFilter
    \/ TgReact

SpecPipeline == TgInit /\ [][TgNext]_vars

\* ------------------------------------------- Reaction Executor: properties
Terminal == {"completed", "failed"}

ActionIndexes == 0 .. (Len(rxTrigger.actions) - 1)

AllIdle == \A h \in Handlers : rxH[h].pc = "idle"

\* The committed terminal-status reaction.executed events of one action.
CommittedEvents(actionIndex) ==
    {k \in 1..Len(rxLog) :
        rxLog[k].actionIndex = actionIndex /\ rxLog[k].status \in Terminal}

\* C1: for a triggering event delivered N >= 1 times, at most one Reaction
\* Execution row exists per (namespace, ruleId, actionIndex), and at most one
\* terminal-status reaction.executed event is emitted per action.
C1_IdempotentReaction ==
    \A i \in ActionIndexes :
        /\ Cardinality({r \in rxRows : r.rule_id = rxTrigger.ruleId
                                       /\ r.action_index = i}) <= 1
        /\ Cardinality(CommittedEvents(i)) <= 1

\* C2: a handler whose INSERT of the pending row lost on the unique
\* constraint does not run the adapter, does not set the row to failed and
\* emits no reaction.executed event for that action.
C2_ConflictMeansAlreadyProcessing ==
    \A h \in Handlers : \A i \in rxH[h].lost :
        /\ i \notin rxH[h].ran
        /\ ~\E r \in rxRows : /\ r.action_index = i
                              /\ r.status = "failed"
                              /\ r.error = UniqueViolation
        /\ ~\E k \in 1..Len(rxH[h].tx) : rxH[h].tx[k].actionIndex = i

\* C3: a row's status only moves pending -> completed or pending -> failed:
\* a row is never removed or recreated, and once completed or failed its
\* status never changes.
C3_StatusOnlyLeavesPending ==
    [][\A r \in rxRows :
          \E r2 \in rxRows' :
              /\ r2.dedupe_key = r.dedupe_key
              /\ r2.execution_id = r.execution_id
              /\ (r.status \in Terminal => r2.status = r.status)]_vars

\* C7: whenever a row is in a terminal status and the triggering
\* event has been acknowledged (and none of its deliveries is still being
\* handled), a reaction.executed event with that status for that action has
\* been committed: no rollback after the row update loses it.
C7_TerminalRowHasItsEvent ==
    (rxAcked /\ AllIdle) =>
        \A r \in rxRows :
            r.status \in Terminal =>
                \E k \in 1..Len(rxLog) :
                    /\ rxLog[k].actionIndex = r.action_index
                    /\ rxLog[k].ruleId = r.rule_id
                    /\ rxLog[k].status = r.status

\* The reach of the loss: the completion event is missing only when a
\* delivery was rolled back after it wrote a row.
TerminalRowHasItsEventUnlessRolledBack ==
    (rxAcked /\ AllIdle /\ ~rxRolledBack) =>
        \A r \in rxRows :
            r.status \in Terminal =>
                \E k \in 1..Len(rxLog) :
                    /\ rxLog[k].actionIndex = r.action_index
                    /\ rxLog[k].ruleId = r.rule_id
                    /\ rxLog[k].status = r.status

\* C14: when an action's adapter reports failure (an unknown action type
\* included), the action's row ends with status failed and a non-empty error
\* message, and the reaction.executed{failed} event emitted for it carries
\* the error.
C14_FailedOutcomeRecorded ==
    /\ \A r \in rxRows : r.status = "failed" => r.error # NoValue
    /\ \A h \in Handlers : \A k \in 1..Len(rxH[h].tx) :
          rxH[h].tx[k].status = "failed" => rxH[h].tx[k].error # NoValue

\* The statuses of the events a handler has emitted in its transaction.
TxStatuses(h) == [k \in 1..Len(rxH[h].tx) |-> rxH[h].tx[k].status]
TxIndexes(h) == [k \in 1..Len(rxH[h].tx) |-> rxH[h].tx[k].actionIndex]

\* C19: a delivery whose pending INSERT or status UPDATE failed for a reason
\* other than a uniqueness conflict does not return normally: the failure
\* leaves the handler as a throw, so the event bus redelivers the trigger.
C19_PersistFailurePropagates ==
    \A h \in Handlers : rxH[h].pc = "return" => ~rxH[h].persistFailed

\* C25: executeAction throws for no action value, and for an action whose
\* type is none of the adapter types it returns failed with the error
\* "Unknown action type"; so in one handler invocation on a fresh trigger
\* with no infrastructure failure, such an action has its own execution row
\* and a reaction.executed with status failed and that error, and every
\* action of the list, before and after it, has its event too.
C25_UnknownActionFailsWithoutThrowing ==
    /\ \A a \in ActionValues :
          /\ executeAction(a).status \in {"completed", "failed"}
          /\ (a \notin KnownActionTypes /\ a # "null") =>
                executeAction(a) = [status |-> "failed", error |-> UnknownActionMsg]
    /\ \A h \in Handlers :
          (rxH[h].pc = "return" /\ rxDeliveries = 1 /\ rxFaults = 0) =>
              /\ Len(rxH[h].tx) = Len(rxTrigger.actions)
              /\ \A k \in 1..Len(rxTrigger.actions) :
                    rxTrigger.actions[k] = "bogus" =>
                        /\ rxH[h].tx[k].actionIndex = k - 1
                        /\ rxH[h].tx[k].status = "failed"
                        /\ rxH[h].tx[k].error = UnknownActionMsg
                        /\ rxH[h].tx[k].executionId # 0
                        /\ (k - 1) \in rxH[h].ran

\* C25's case: the list [unknown type, unknown type] was handled to the end
\* by one invocation, with two failed results.
C25_Witness ==
    \E h \in Handlers :
        /\ rxH[h].pc = "return" /\ rxDeliveries = 1 /\ rxFaults = 0
        /\ rxTrigger.actions = <<"bogus", "bogus">>
        /\ rxH[h].ran = {0, 1}
        /\ TxStatuses(h) = <<"failed", "failed">>
        /\ rxH[h].tx[2].error = UnknownActionMsg

\* C28: a row left pending by a delivery that was cut off between the
\* pending INSERT and the status UPDATE does not block its action for good:
\* once the triggering event is acknowledged and no delivery is in flight
\* (so that no later delivery will come), no row is still pending.
C28_PendingRowDoesNotBlock ==
    (rxAcked /\ AllIdle) => \A r \in rxRows : r.status # "pending"

\* C29: an action whose row was already there when the handler looked it up
\* (in whatever status) is skipped by that handler: it does not run the
\* adapter for it, does not insert or modify a row for it and emits no
\* reaction.executed for it; and the handler goes on through the list, so
\* that a handler that returns has dealt with every action.
C29_IdempotencyShortCircuit ==
    \A h \in Handlers :
        /\ \A i \in rxH[h].found :
              /\ i \notin rxH[h].ran
              /\ i \notin rxH[h].touched
              /\ ~\E k \in 1..Len(rxH[h].tx) : rxH[h].tx[k].actionIndex = i
        /\ rxH[h].pc = "return" => rxH[h].idx = Len(rxTrigger.actions)

\* C29's case: a redelivery found the first action's row (left pending by
\* the delivery before it), skipped it, and went on to run the second action.
C29_Witness ==
    \E h \in Handlers :
        /\ rxH[h].pc = "return"
        /\ rxH[h].found = {0}
        /\ rxH[h].ran = {1}
        /\ \E r \in rxRows : r.action_index = 0 /\ r.status = "pending"
        /\ TxIndexes(h) = <<1>>

\* C8: one handler invocation on a fresh trigger, with no infrastructure
\* failure, processes every action of the list whatever the outcome of the
\* earlier ones: it emits one reaction.executed event per action, in action
\* order, each with the status of that action's outcome ([failed, completed]
\* for a list [A fails, B succeeds]).
C8_ActionLoopResilience ==
    \A h \in Handlers :
        (rxH[h].pc = "return" /\ rxDeliveries = 1 /\ rxFaults = 0) =>
            /\ Len(rxH[h].tx) = Len(rxTrigger.actions)
            /\ \A k \in 1..Len(rxTrigger.actions) :
                /\ rxH[h].tx[k].actionIndex = k - 1
                /\ rxH[h].tx[k].status = executeAction(rxTrigger.actions[k]).status
                /\ \E r \in rxRows : /\ r.action_index = k - 1
                                     /\ r.status = rxH[h].tx[k].status

\* C8's case: the list [A (unknown type, fails), B (succeeds)] was handled by
\* one invocation, which emitted [failed, completed].
C8_Witness ==
    \E h \in Handlers :
        /\ rxH[h].pc = "return" /\ rxDeliveries = 1 /\ rxFaults = 0
        /\ rxTrigger.actions = <<"bogus", "echo">>
        /\ rxH[h].ran = {0, 1}
        /\ TxStatuses(h) = <<"failed", "completed">>
        /\ TxIndexes(h) = <<0, 1>>

\* ------------------------------------------------- Enrich/Diff: properties
EnAllIdle == \A h \in Handlers : enH[h].pc = "idle"

EnAllAcked == \A m \in 1..Len(enSignals) : enAcked[m]

\* Every signal of the run has the same normalized content.
EnUnchangedContent ==
    \A m \in 1..Len(enSignals) : HashOf(enSignals[m]) = HashOf(enSignals[1])

\* The committed enriched.web.content_delta events that carry a fingerprint.
EnCommitted(hash) == {k \in 1..Len(enLog) : enLog[k].hash = hash}

\* C4: a signal whose normalized content is unchanged, delivered N >= 1
\* times: once the deliveries are handled, exactly one enriched event has been
\* emitted in total, and the snapshot holds that content's fingerprint from
\* the first handled delivery on.
C4_IdempotentEnrichment ==
    /\ (EnUnchangedContent /\ EnAllAcked /\ EnAllIdle) =>
            Cardinality(EnCommitted(HashOf(enSignals[1]))) = 1
    /\ (EnUnchangedContent /\ \E m \in 1..Len(enSignals) : enAcked[m]) =>
            enSnapshot = HashOf(enSignals[1])

\* C5: the same content handled by concurrent invocations gives no more than
\* one enriched event for that content.
C5_AtMostOneEnrichedEvent ==
    EnUnchangedContent => Cardinality(EnCommitted(HashOf(enSignals[1]))) <= 1

\* What an invocation of handleWebSnapshot has decided and done by the time
\* it is past the decision, and when it completes.
EnDecisionAndEmission ==
    \A h \in Handlers :
        /\ enH[h].pc \in {"upsert", "emit", "return"} =>
              (enH[h].changed <=> (enH[h].prev = NoValue \/ enH[h].prev # enH[h].hash))
        /\ enH[h].pc = "return" =>
              /\ enH[h].wrote
              /\ enH[h].hash = HashOf(enSignals[enH[h].msg])
              /\ IF enH[h].changed
                 THEN enH[h].tx = <<[eventType |-> "enriched.web.content_delta",
                                    hash |-> enH[h].hash,
                                    previousHash |-> enH[h].prev]>>
                 ELSE enH[h].tx = <<>>

\* The step in which an invocation passes its upsert leaves the snapshot at
\* the invocation's fingerprint.
EnUpsertStoresFingerprint ==
    \A h \in Handlers :
        (enH[h].pc = "upsert" /\ enH'[h].pc \in {"emit", "return"}) =>
            enSnapshot' = enH[h].hash

\* C30: for every completed handleWebSnapshot invocation, changed is true
\* exactly when it read no prior snapshot or the prior fingerprint differs
\* from the new one; its upsert set the snapshot to the new fingerprint
\* whether or not changed is true; and it emitted an enriched event (with
\* the new and the previous fingerprint) if and only if changed is true.
C30_DecisionUpsertEmission ==
    []EnDecisionAndEmission /\ [][EnUpsertStoresFingerprint]_vars

\* C30's case: a second signal whose body differs from the first but
\* normalizes to the same content was handled to completion: unchanged, the
\* snapshot written all the same, nothing emitted; the first signal's event
\* is the only one committed.
C30_Witness ==
    \E h \in Handlers :
        /\ enH[h].pc = "return"
        /\ enH[h].msg = 2
        /\ enSignals[1] # enSignals[2]
        /\ ~enH[h].changed /\ enH[h].wrote /\ enH[h].tx = <<>>
        /\ enH[h].prev = enH[h].hash
        /\ Len(enLog) = 1

\* C31: the committed enriched events of the source form a chain: the first
\* carries no previousHash, each later one carries as previousHash the hash
\* of the one before it, and none has hash = previousHash.
C31_EnrichedChain ==
    /\ Len(enLog) >= 1 => enLog[1].previousHash = NoValue
    /\ \A k \in 2..Len(enLog) : enLog[k].previousHash = enLog[k - 1].hash
    /\ \A k \in 1..Len(enLog) : enLog[k].hash # enLog[k].previousHash

\* C6: once every signal is acknowledged and no delivery is being
\* handled, the fingerprint the snapshot holds has its enriched event
\* committed: no handler failure or rollback after the upsert loses it.
C6_DecisionAnnounced ==
    (EnAllIdle /\ EnAllAcked /\ enSnapshot # NoValue) =>
        EnCommitted(enSnapshot) # {}

\* The reach of the loss: the announcement is missing only when a delivery was
\* rolled back after its snapshot upsert.
DecisionAnnouncedUnlessRolledBack ==
    (EnAllIdle /\ EnAllAcked /\ enSnapshot # NoValue /\ ~enLost) =>
        EnCommitted(enSnapshot) # {}

\* --------------------------------------------- Interest Filter: properties
RECURSIVE RuleIdsWhere(_, _)
RuleIdsWhere(rows, outcome) ==
    IF rows = <<>> THEN <<>>
    ELSE IF Head(rows).condition_expr = outcome
         THEN <<Head(rows).rule_id>> \o RuleIdsWhere(Tail(rows), outcome)
         ELSE RuleIdsWhere(Tail(rows), outcome)

InEmittedRuleIds == [k \in 1..Len(inH.tx) |-> inH.tx[k].ruleId]

\* C9: when the handler has gone through the candidate rules of an enriched
\* event (with no failure of the bus), it has emitted one interest.match for
\* each rule whose predicate is true and none for a rule whose evaluation
\* throws, wherever the throwing rule stands in the evaluation order: for R1
\* (throws) and R2 (true), exactly one event, for R2.
C9_RuleIsolation ==
    (inH.pc = "return" /\ ~inH.aborted) =>
        InEmittedRuleIds =
            RuleIdsWhere(SelectRows(inRules, inEvent.namespace, inEvent.eventType), "true")

\* C9's case: R1's evaluation throws, R2 is evaluated after it and is true,
\* and the handler has emitted exactly one event, for R2.
C9_Witness ==
    /\ inH.pc = "return" /\ ~inH.aborted
    /\ Len(inH.rules) = 2
    /\ inH.rules[1].condition_expr = "throws"
    /\ inH.rules[2].condition_expr = "true"
    /\ InEmittedRuleIds = <<inH.rules[2].rule_id>>

\* The rules of the table that are disabled, match the enriched event's type
\* and whose predicate would be true.
DisabledMatching ==
    {k \in 1..Len(inRules) :
        /\ ~inRules[k].enabled
        /\ inRules[k].namespace = inEvent.namespace
        /\ inRules[k].event_type = inEvent.eventType
        /\ inRules[k].condition_expr = "true"}

\* C13: a rule with enabled=false whose event type matches the enriched
\* event and whose predicate would be true is never among the rules the
\* handler evaluates and never has an interest.match event, emitted in a
\* delivery or committed.
C13_DisabledRulesExcluded ==
    \A k \in DisabledMatching :
        /\ \A j \in 1..Len(inH.rules) : inH.rules[j].rule_id # inRules[k].rule_id
        /\ \A j \in 1..Len(inH.tx) : inH.tx[j].ruleId # inRules[k].rule_id
        /\ \A j \in 1..Len(inLog) : inLog[j].ruleId # inRules[k].rule_id

\* C13's case: the table holds such a disabled rule next to an enabled rule
\* that matched; the event was handled and acknowledged with the enabled
\* rule's match alone.
C13_Witness ==
    /\ DisabledMatching # {}
    /\ inAcked /\ inH.pc = "idle"
    /\ Len(inLog) = 1
    /\ \E k \in 1..Len(inRules) : inRules[k].enabled /\ inRules[k].rule_id = inLog[1].ruleId

\* ------------------------------------------------ Process node: properties
IsFailedReaction(event) ==
    event.eventType = ReactionExecutedType /\ event.status = "failed"

PrTxTypes(h) == [k \in 1..Len(prH[h].tx) |-> prH[h].tx[k].eventType]

PrLogTypes == [k \in 1..Len(prLog) |-> prLog[k].eventType]

InHistory(event, k) ==
    \E j \in 1..Len(prInstances[k].events) : prInstances[k].events[j] = event

\* C21: when the Interest Filter is handed signal.periodic.heartbeat, its
\* handler only throws the error named SkipAcknowledgmentError: it has read
\* no table, emitted no event in the delivery, nothing of it is committed,
\* the signal is not acknowledged, and the handler never returns normally.
C21_SkipAcknowledgmentHasNoEffect ==
    inEvent.eventType = SignalHeartbeatType =>
        /\ inH.pc \in {"idle", "skip", "throw"}
        /\ ~inH.read
        /\ inH.tx = <<>>
        /\ inLog = <<>>
        /\ ~inAcked
        /\ inH.pc = "throw" => inH.error = "SkipAcknowledgmentError"

\* C21's case: the signal was delivered, skipped, rolled back, delivered
\* again and skipped again, while the rules table holds rules.
C21_Witness ==
    /\ inEvent.eventType = SignalHeartbeatType
    /\ inRules # <<>>
    /\ inDeliveries = 2
    /\ inH.pc = "throw"

\* The interest.match events the rules of a table call for on an event: one
\* for each enabled rule of the event's namespace and type whose predicate
\* is true, with the rule's id, name and actions and the event as delivered.
RECURSIVE ExpectedMatches(_, _)
ExpectedMatches(table, event) ==
    IF table = <<>> THEN <<>>
    ELSE IF /\ Head(table).enabled
            /\ Head(table).namespace = event.namespace
            /\ Head(table).event_type = event.eventType
            /\ Head(table).condition_expr = "true"
         THEN <<[namespace |-> event.namespace, eventType |-> "interest.match",
                 ruleId |-> Head(table).rule_id, ruleName |-> Head(table).name,
                 actions |-> Head(table).actions, event |-> event,
                 producerNodeId |-> event.producerNodeId]>>
              \o ExpectedMatches(Tail(table), event)
         ELSE ExpectedMatches(Tail(table), event)

\* C22: when the handler has gone through an enriched event with no failure
\* of the bus, it has emitted exactly one interest.match per enabled rule of
\* the event's namespace and type whose predicate is true (none when there
\* is no such rule), each carrying that rule's ruleId, ruleName and actions
\* and the full triggering envelope; and these are the events committed when
\* the event is acknowledged.
C22_OneMatchPerTrueRule ==
    /\ (inH.pc = "return" /\ ~inH.aborted) => inH.tx = ExpectedMatches(inRules, inEvent)
    /\ inAcked => inLog = ExpectedMatches(inRules, inEvent)

\* C22's case: two rules of the event's namespace and type are enabled and
\* true, next to nothing else, and the acknowledged event has two matches
\* with different names or actions.
C22_Witness ==
    /\ inAcked
    /\ Len(inLog) = 2
    /\ inLog[1].ruleId # inLog[2].ruleId
    /\ inLog[1].actions # inLog[2].actions
    /\ inLog[1].event = inEvent

\* C20: when emitting interest.match for a matching rule fails, the handler
\* throws: a delivery in which an emit failed never returns normally.
C20_EmitFailurePropagates ==
    inH.pc = "return" => ~inH.aborted

RECURSIVE CountIn(_, _)
CountIn(events, event) ==
    IF events = <<>> THEN 0
    ELSE (IF Head(events) = event THEN 1 ELSE 0) + CountIn(Tail(events), event)

RECURSIVE HistoryCountUpTo(_, _)
HistoryCountUpTo(k, event) ==
    IF k = 0 THEN 0
    ELSE CountIn(prInstances[k].events, event) + HistoryCountUpTo(k - 1, event)

PrAllIdle == \A h \in Handlers : prH[h].pc = "idle"

\* The lifecycle events one delivery of the event, alone, commits.
LifecycleOfOneDelivery(event) ==
    IF event.eventType = ReactionExecutedType
    THEN IF event.status = "failed"
         THEN <<"process.started", "incident.created">> ELSE <<>>
    ELSE IF determineProcessType(event.eventType) # NoValue
         THEN <<"process.started">> ELSE <<>>

\* C24: a delivery of an interest.match (or enriched.periodic.heartbeat)
\* event that has been handled created a new process instance, of type
\* monitoring in state started (heartbeat-monitoring in state active), whose
\* history is the triggering event alone, and emitted exactly one event, the
\* process.started of that instance; a delivery for which no process type is
\* derivable created nothing and emitted nothing.
C24_AlwaysNewProcess ==
    \A h \in Handlers :
        (prH[h].pc = "return" /\ prEvents[prH[h].msg].eventType # ReactionExecutedType) =>
            LET event == prEvents[prH[h].msg]
                type == IF event.eventType = InterestMatchType THEN "monitoring"
                        ELSE IF event.eventType = HeartbeatType
                             THEN "heartbeat-monitoring" ELSE NoValue
                state == IF event.eventType = InterestMatchType
                         THEN "started" ELSE "active" IN
            IF type = NoValue
            THEN ~prH[h].created /\ prH[h].tx = <<>>
            ELSE /\ prH[h].created
                 /\ prH[h].processId \in 1..Len(prInstances)
                 /\ prInstances[prH[h].processId].type = type
                 /\ prInstances[prH[h].processId].state = state
                 /\ prInstances[prH[h].processId].events = <<event>>
                 /\ prH[h].tx = <<[eventType |-> "process.started",
                                   processId |-> prH[h].processId,
                                   type |-> type, state |-> state]>>
                 /\ \A g \in Handlers \ {h} :
                       prH[g].created => prH[g].processId # prH[h].processId

\* C24's case: an interest.match was handled while an earlier instance (an
\* incident or a monitoring process) exists: a further instance was created.
C24_Witness ==
    \E h \in Handlers :
        /\ prH[h].pc = "return"
        /\ prEvents[prH[h].msg].eventType = InterestMatchType
        /\ prH[h].processId >= 2
        /\ \E k \in 1..(prH[h].processId - 1) :
              prInstances[k].type \in {"incident", "monitoring"}

\* C32: a process instance's event history is append-only.  A step that
\* merges a failed reaction into an open incident leaves that incident's
\* history one entry longer, the merged event last and the earlier entries
\* as they were; and no step of the Process node removes an instance,
\* shortens a history or rewrites an entry of one.
C32_HistoryAppendOnly ==
    [][/\ Len(prInstances') >= Len(prInstances)
       /\ \A k \in 1..Len(prInstances) :
             LET old == prInstances[k].events
                 new == prInstances'[k].events IN
             /\ Len(new) >= Len(old)
             /\ SubSeq(new, 1, Len(old)) = old
       /\ \A h \in Handlers :
             (prH[h].pc = "append" /\ prH'[h].pc = "emit_updated") =>
                 LET old == prInstances[prH[h].processId].events
                     new == prInstances'[prH[h].processId].events IN
                 /\ Len(new) = Len(old) + 1
                 /\ new[Len(new)] = prEvents[prH[h].msg]
                 /\ SubSeq(new, 1, Len(old)) = old]_vars

\* C32's case: a failed reaction has been merged into an incident that
\* another event had opened: the history holds the older event first and
\* the merged one last.
C32_Witness ==
    \E h \in Handlers :
        /\ prH[h].pc = "emit_updated"
        /\ LET events == prInstances[prH[h].processId].events IN
           /\ Len(events) >= 2
           /\ events[Len(events)] = prEvents[prH[h].msg]
           /\ events[1] # prEvents[prH[h].msg]

\* No step of the Process node changes the namespace, type, state or rule of
\* an instance that exists.
ExistingInstanceKeepsItsColumns ==
    [][\A k \in 1..Len(prInstances) :
          /\ k <= Len(prInstances')
          /\ prInstances'[k].namespace = prInstances[k].namespace
          /\ prInstances'[k].type = prInstances[k].type
          /\ prInstances'[k].state = prInstances[k].state
          /\ prInstances'[k].ruleId = prInstances[k].ruleId]_vars

\* C33: an incident created open stays open, and every failed reaction
\* handled after it exists is merged into it: a handler that found an open
\* incident and merged its event has put the event into the history of
\* every open incident that existed when it looked (those created no later
\* than the one it found).
C33_OpenIncidentTakesLaterFailures ==
    \A h \in Handlers :
        (/\ prH[h].pc \in {"emit_updated", "return"}
         /\ IsFailedReaction(prEvents[prH[h].msg])
         /\ prH[h].existing # 0) =>
            \A k \in OpenIncidents :
                k <= prH[h].existing => InHistory(prEvents[prH[h].msg], k)

\* C27: whatever the interleaving of the deliveries of failed reactions, at
\* most one instance of type incident in state open exists in the namespace,
\* and at most one incident.created is emitted (no incident is ever closed).
C27_AtMostOneOpenIncident ==
    /\ Cardinality(OpenIncidents) <= 1
    /\ Cardinality({k \in 1..Len(prLog) : prLog[k].eventType = "incident.created"}) <= 1

\* C11: delivering the same interest.match or reaction.executed{failed} event
\* N >= 1 times leaves the durable state and the emitted lifecycle events of
\* one delivery: the event stands at most once in the instances' histories
\* (no additional instance, no duplicate history entry), and once the only
\* event of a run is acknowledged the committed lifecycle events are those of
\* a single delivery.
C11_ProcessIdempotentUnderRedelivery ==
    \A m \in 1..Len(prEvents) :
        (prEvents[m].eventType = InterestMatchType \/ IsFailedReaction(prEvents[m])) =>
            /\ HistoryCountUpTo(Len(prInstances), prEvents[m]) <= 1
            /\ (Len(prEvents) = 1 /\ PrAllIdle /\ prAcked[1]) =>
                  PrLogTypes = LifecycleOfOneDelivery(prEvents[1])

\* ----------------------------------------------------- Pipeline: properties
\* C12: every distinct triggering event that matches a rule has each of the
\* rule's actions executed exactly once: once an interest.match event has
\* been handled, the adapter of its action ran once for it, also when an
\* earlier emission had the same eventType and payload.
C12_ExactlyOncePerTrigger ==
    \A i \in 1..tgPos.matches : tgRan[i] = 1

\* --------------------------------------------------- Heartbeat: properties
\* C15: the Enrich/Diff node emits an enriched event only on a change, for
\* the heartbeat signal as for the web snapshot: redelivering an identical
\* signal.periodic.heartbeat never gives a second enriched event.
C15_HeartbeatEmittedOnce ==
    Len(hbLog) <= 1

\* ---------------------------------------------------- Emission: properties
\* C16: emitFromTransaction sends to the queue and appends to the event log
\* on the handler's transaction client: of every emitted envelope either the
\* queue message and the log entry are both committed or neither is, and
\* nothing a delivery emitted is visible when its handler threw.
C16_TransactionalEmission ==
    /\ emQueue = emLog
    /\ \A e \in emQueue \cup emLog : e.delivery \notin emRolledBack

\* C16's case: a delivery emitted and was rolled back, a redelivery emitted
\* again and committed: only the redelivery's envelopes are visible.
C16_Witness ==
    /\ emRolledBack # {}
    /\ emAcked
    /\ emQueue # {}
    /\ emPlan.envelopes = 2
    /\ Cardinality(emLog) = 2

\* ----------------------------------------------------- Startup: properties
HasDuplicateId(nodes) ==
    \E i \in 1..Len(nodes) : \E j \in 1..Len(nodes) : i # j /\ nodes[i].id = nodes[j].id

HasInvalidType(nodes) ==
    \E i \in 1..Len(nodes) : nodes[i].type \notin validTypes

StNothingStarted ==
    /\ stPc \in {"load", "validate", "failed"}
    /\ stRegistered = <<>>
    /\ stHandlers = <<>>
    /\ stConsuming = <<>>

\* C17: a configuration with two nodes of the same id, or with a node whose
\* type is not one of the six, never gets past validation: no node is
\* registered, has handlers attached or consumes, main does not go on to
\* connect, and once it loaded the error main ends with is validation's.
C17_InvalidConfigRejectedBeforeStart ==
    (HasDuplicateId(stConfig.nodes) \/ HasInvalidType(stConfig.nodes)) =>
        /\ StNothingStarted
        /\ (stPc = "failed" /\ loadPipelineConfig(stConfig) = "ok") =>
              stError \in {"Duplicate node ID", "Invalid node type"}

\* C17's case: a configuration that loads and has two nodes of the same id
\* was rejected by validatePipelineConfig.
C17_Witness ==
    /\ stPc = "failed"
    /\ stError = "Duplicate node ID"
    /\ ~HasInvalidType(stConfig.nodes)
    /\ stRegistered = <<>>

\* The configuration has name, namespace, a non-empty nodes array, and every
\* node has id, type and listensTo.
WellFormed(config) ==
    /\ config.name # NoValue
    /\ config.namespace # NoValue
    /\ config.nodesIsArray
    /\ Len(config.nodes) >= 1
    /\ \A i \in 1..Len(config.nodes) :
          /\ config.nodes[i].id # NoValue
          /\ config.nodes[i].type # NoValue
          /\ config.nodes[i].listensToIsArray

\* C18: loading fails unless name, namespace and a non-empty nodes array are
\* present and every node has id, type and listensTo: a configuration that
\* is not of that form (nodes = [] in particular) gets no further than
\* loading, and the pipeline does not start.
C18_LoadRejectsIllFormed ==
    ~WellFormed(stConfig) => stPc \in {"load", "failed"}

\* --------------------------------------------------- Ownership: properties
\* C23: whatever handlers have run, core.entity_state was written by the
\* Enrich node only, core.interest_rules by no node (the Interest Filter only
\* reads it), core.reaction_executions by the Reaction Executor only and
\* core.process_instances by the Process node only.
C23_SingleWriterOwnership ==
    /\ owWrote["core.entity_state"] \subseteq {"enrich"}
    /\ owWrote["core.interest_rules"] = {}
    /\ owWrote["core.reaction_executions"] \subseteq {"reaction"}
    /\ owWrote["core.process_instances"] \subseteq {"process"}

\* C23's case: handlers of all four node types have run: three tables were
\* written, each by its owner, and the Interest Filter has read the rules.
C23_Witness ==
    /\ owWrote["core.entity_state"] = {"enrich"}
    /\ owWrote["core.reaction_executions"] = {"reaction"}
    /\ owWrote["core.process_instances"] = {"process"}
    /\ owRead["core.interest_rules"] = {"interest"}
    /\ owRunning = <<"none", "none">>

\* ---------------------------------------------- Classification: properties
\* The string written with words `eventType` begins with the words `prefix`.
BeginsWith(eventType, prefix) ==
    /\ Len(prefix) <= Len(eventType)
    /\ \A i \in 1..Len(prefix) : eventType[i] = prefix[i]

\* C26: every call of determineProcessType returns a value (one of the three
\* process types or null): monitoring for a type that starts with
\* interest.match, heartbeat-monitoring for one that starts with
\* enriched.periodic.heartbeat, enrichment-process for any other type that
\* starts with "enriched.", null for every other string; and two calls on the
\* same string return the same.
C26_ClassificationTotalAndPure ==
    /\ \A k \in 1..Len(clResults) :
          clResults[k] =
            IF BeginsWith(clEventType, <<"interest", ".", "match">>)
            THEN "monitoring"
            ELSE IF BeginsWith(clEventType,
                               <<"enriched", ".", "periodic", ".", "heartbeat">>)
            THEN "heartbeat-monitoring"
            ELSE IF BeginsWith(clEventType, <<"enriched", ".">>)
            THEN "enrichment-process"
            ELSE NoValue
    /\ \A j \in 1..Len(clResults) : \A k \in 1..Len(clResults) :
          clResults[j] = clResults[k]

\* C26's case: enriched.periodic.heartbeat followed by one more word was
\* classified twice, both times as heartbeat-monitoring.
C26_Witness ==
    /\ Len(clEventType) = 6
    /\ SubSeq(clEventType, 1, 5) = <<"enriched", ".", "periodic", ".", "heartbeat">>
    /\ clResults = <<"heartbeat-monitoring", "heartbeat-monitoring">>

\* ---------------------------------------------------- Executor: properties
ExAllCreated == \A i \in 1..Len(exConfig) : exInstances[i] # NoValue

ExPeriodic == {i \in 1..Len(exConfig) : IsPeriodicConnector(exConfig[i])}

\* C34: start() registers every node, then creates every instance (which
\* registers its handlers), and only then starts a node consuming: a step
\* that creates an instance finds every node registered, a step that starts a
\* node consuming finds every instance created, and a step in which a
\* connector emits a signal leaves every node's instance created.
C34_StartOrdering ==
    [][/\ exInstances' # exInstances /\ exPc = "create" =>
             exNodes = 1..Len(exConfig)
       /\ (exConsuming' # exConsuming /\ exPc = "start") => ExAllCreated
       /\ exEmitted' > exEmitted => ExAllCreated']_vars

\* C35: a periodic connector never has more than one active interval timer,
\* has exactly one once start() has returned, and has none once stop() has
\* returned.
C35_OneTimerPerConnector ==
    /\ \A i \in 1..Len(exConfig) : Cardinality(exTimers[i]) <= 1
    /\ exPc = "started" => \A i \in ExPeriodic : Cardinality(exTimers[i]) = 1
    /\ exPc = "stopped" => \A i \in 1..Len(exConfig) : exTimers[i] = {}

\* C36: when start() has rejected because a node could not be built, no node
\* consumes from the queue and no connector has an active timer.
C36_RejectedStartLeavesNothingRunning ==
    exPc = "rejected" =>
        /\ exConsuming = {}
        /\ \A i \in 1..Len(exConfig) : exTimers[i] = {}

\* C37: once start() has returned for a configuration whose node types are
\* all valid, every node has a handler for every event type of its listensTo.
C37_HandlerForEveryListenedType ==
    (/\ exPc = "started"
     /\ \A i \in 1..Len(exConfig) : exConfig[i].type \in validTypes) =>
        \A i \in 1..Len(exConfig) : exConfig[i].listensTo \subseteq exHandlers[i]

\* --------------------------------------------------- Dedupe key: properties
\* The two calls agree on what the key is made of.
DkSameKeyedFields(a, b) ==
    /\ a.namespace = b.namespace
    /\ a.ruleId = b.ruleId
    /\ a.actionIndex = b.actionIndex
    /\ a.event.eventType = b.event.eventType
    /\ a.event.payload = b.event.payload

\* Calls that agree on namespace, rule id, action index, event type and
\* payload return the same key, whatever emittedAt and producerNodeId are.
DedupeKeyDeterministic ==
    Len(dkCalls) = 2 =>
        (DkSameKeyedFields(dkCalls[1], dkCalls[2]) => dkKeys[1] = dkKeys[2])

\* C39: generateDedupeKey is deterministic and, before hashing, injective:
\* two calls give the same "|"-joined key string exactly when they agree on
\* namespace, rule id, action index, event type and payload.
C39_KeyDeterministicAndInjective ==
    Len(dkCalls) = 2 =>
        /\ DkSameKeyedFields(dkCalls[1], dkCalls[2]) => dkKeys[1] = dkKeys[2]
        /\ dkKeys[1].joined = dkKeys[2].joined =>
              DkSameKeyedFields(dkCalls[1], dkCalls[2])

\* ----------------------------------------------------- Deferral: properties
DfHandled(m) ==
    /\ dfStatus[m] = "acked"
    /\ \E k \in 1..Len(dfLog) :
          /\ dfLog[k].eventType = HeartbeatType
          /\ dfLog[k].count = dfSignals[m].count
          /\ dfLog[k].value = dfSignals[m].value

\* A message is acknowledged only by the enricher's commit, which puts its
\* enriched event into the log.
DfNotLost ==
    \A m \in 1..Len(dfSignals) : dfStatus[m] = "acked" => DfHandled(m)

\* C38: a signal.periodic.heartbeat that the Interest Filter skipped is not
\* lost, and under fair delivery it is eventually handled by the enricher:
\* acknowledged, with its enriched.periodic.heartbeat committed.
C38_DeferredSignalEventuallyEnriched ==
    /\ []DfNotLost
    /\ \A m \in 1..MaxHeartbeats :
          (m <= Len(dfSignals) /\ dfSkips[m] > 0) ~>
              (m <= Len(dfSignals) /\ DfHandled(m))

\* C38's case: a message that the Interest Filter skipped, more than once,
\* has been handled by the enricher.
C38_Witness ==
    \E m \in 1..Len(dfSignals) : dfSkips[m] >= 2 /\ DfHandled(m)

====
